---- MODULE Spec2Model ----
(***************************************************************************)
(* A model of backend/cache_service.py: CacheEntry, LRUCache (an           *)
(* OrderedDict guarded by one threading.Lock, with hit/miss/eviction       *)
(* counters) and the CacheService facade over four LRUCache instances.     *)
(*                                                                         *)
(* The methods of LRUCache are pure operators on a record `self` and the   *)
(* clock reading `t` (time.time()); each returns the record after the call *)
(* and, where the method returns something, the returned value.            *)
(*                                                                         *)
(* Spec: one LRUCache called sequentially. SpecConc: one LRUCache called   *)
(* by two threads, the method bodies run statement by statement. SpecKey:  *)
(* _generate_cache_key. SpecPool: the search accessors of the facade.      *)
(* SpecParams: the same, called with parameters json.dumps cannot encode.  *)
(* SpecAccess: the accessors of the four categories. SpecShare: the facade *)
(* called by two threads. SpecGlobal: get_cache_service called by two      *)
(* threads. SpecLive: SpecConc under fair scheduling. SpecStats: one       *)
(* LRUCache counting up to MaxRequests gets, for the reports of get_stats. *)
(***************************************************************************)
EXTENDS Integers, Sequences, FiniteSets, TLC

\* ------------------------------------------------------------------ bounds
\* Largest capacity an LRUCache of the sequential specification is built with.
MaxSize == 2
\* The clock runs over 0..MaxTime.
MaxTime == 1
\* total_requests (hits + misses) and evictions are capped here: a call that
\* would count past the cap is not issued.
MaxCount == 1
\* total_requests is capped here in SpecStats.
MaxRequests == 3

\* Python's None: what get returns for a miss, and a value a caller may store.
None == "None"

\* The keys, values and ttl_seconds the calls are issued with.
Keys == {"k1", "k2", "k3"}
Values == {"v1", None}
TTLs == {0, 1}

VARIABLES
    now,        \* time.time()
    lru,        \* Spec: the LRUCache
    last,       \* Spec: the last call on lru, its arguments and returned value
    recent,     \* Spec, history: the keys in lru, least recently accessed first
    kd_operation,  \* SpecKey: the operation given to _generate_cache_key
    kd_params,  \* SpecKey: the parameter bag given to _generate_cache_key
    kd_key,     \* SpecKey: the key _generate_cache_key returned
    service,    \* SpecKey, SpecPool: the CacheService
    call,       \* SpecPool: the last call on service and what it returned
    sets,       \* SpecPool, history: log, the latest set_search_result calls
                \* made with no get_search_result between them, and read,
                \* whether a get_search_result followed the last of them
    shared,     \* SpecConc: the LRUCache the threads call
    lock,       \* SpecConc: the thread that holds shared's lock, or None
    thread,     \* SpecConc: each thread's position, call and locals
    serial,     \* SpecConc, history: the calls run one at a time
    callers,    \* SpecShare: the locks of service's caches and the two threads
                \* that call service
    global      \* SpecGlobal: the module's _cache_service, the CacheService
                \* objects built so far and the threads calling get_cache_service

vars ==
    <<now, lru, last, recent, kd_operation, kd_params, kd_key, service, call, sets,
      shared, lock, thread, serial, callers, global>>
lruVars == <<lru, last, recent>>
keyVars == <<kd_operation, kd_params, kd_key>>
poolVars == <<service, call, sets>>
concVars == <<shared, lock, thread, serial>>
shareVars == <<callers>>
globalVars == <<global>>

\* ------------------------------------------------------------- CacheEntry
CacheEntry(value, ttl_seconds, t) ==
    [value |-> value, timestamp |-> t, ttl_seconds |-> ttl_seconds]

\* A variant of is_expired: an entry expires as soon as its age reaches its ttl.
is_expired_at_ttl(entry, t) == t - entry.timestamp >= entry.ttl_seconds

\* A variant of is_expired: an entry stored with a ttl of 0 is expired at once.
is_expired_zero_ttl(entry, t) ==
    entry.ttl_seconds = 0 \/ t - entry.timestamp > entry.ttl_seconds

is_expired(entry, t) == t - entry.timestamp > entry.ttl_seconds

\* --------------------------------------------------------------- LRUCache
\* The OrderedDict is a sequence of [key, entry], least recently used first.
LRUCache(max_size) ==
    [max_size |-> max_size, cache |-> <<>>, hits |-> 0, misses |-> 0, evictions |-> 0]

\* key in self.cache
Contains(cache, key) == \E i \in 1..Len(cache) : cache[i].key = key

\* self.cache[key]
Lookup(cache, key) == cache[CHOOSE i \in 1..Len(cache) : cache[i].key = key].entry

\* del self.cache[key]
DelKey(cache, key) == SelectSeq(cache, LAMBDA e : e.key # key)

\* A variant of move_to_end: the key keeps its position.
move_to_end_skipped(cache, key) == cache

\* self.cache.move_to_end(key)
move_to_end(cache, key) ==
    DelKey(cache, key) \o <<[key |-> key, entry |-> Lookup(cache, key)]>>

\* A variant of popitem_first: popitem(last=True), the newest item goes.
popitem_last(cache) == SubSeq(cache, 1, Len(cache) - 1)

\* self.cache.popitem(last=False)
popitem_first(cache) == Tail(cache)

KeysOf(cache) == {cache[i].key : i \in 1..Len(cache)}

\* A variant of get: an expired entry is reported as a miss and left where it
\* is, uncounted as an eviction.
LRUCache_get_keeps_expired(self, key, t) ==
    IF Contains(self.cache, key) /\ ~is_expired(Lookup(self.cache, key), t)
    THEN [self |-> [self EXCEPT !.cache = move_to_end(self.cache, key),
                                !.hits = @ + 1],
          ret |-> Lookup(self.cache, key).value]
    ELSE [self |-> [self EXCEPT !.misses = @ + 1], ret |-> None]

\* A variant of get: only an expired entry counts as a miss, an absent key
\* counts as nothing.
LRUCache_get_absent_uncounted(self, key, t) ==
    IF Contains(self.cache, key)
    THEN LET entry == Lookup(self.cache, key) IN
         IF ~is_expired(entry, t)
         THEN [self |-> [self EXCEPT !.cache = move_to_end(self.cache, key),
                                     !.hits = @ + 1],
               ret |-> entry.value]
         ELSE [self |-> [self EXCEPT !.cache = DelKey(self.cache, key),
                                     !.evictions = @ + 1,
                                     !.misses = @ + 1],
               ret |-> None]
    ELSE [self |-> self, ret |-> None]

LRUCache_get(self, key, t) ==
    IF Contains(self.cache, key)
    THEN LET entry == Lookup(self.cache, key) IN
         IF ~is_expired(entry, t)
         THEN [self |-> [self EXCEPT !.cache = move_to_end(self.cache, key),
                                     !.hits = @ + 1],
               ret |-> entry.value]
         ELSE [self |-> [self EXCEPT !.cache = DelKey(self.cache, key),
                                     !.evictions = @ + 1,
                                     !.misses = @ + 1],
               ret |-> None]
    ELSE [self |-> [self EXCEPT !.misses = @ + 1], ret |-> None]

\* A variant of set: the capacity check is missing.
LRUCache_set_unbounded(self, key, value, ttl_seconds, t) ==
    LET removed == IF Contains(self.cache, key) THEN DelKey(self.cache, key)
                   ELSE self.cache
    IN [self |-> [self EXCEPT !.cache =
                     Append(removed, [key |-> key, entry |-> CacheEntry(value, ttl_seconds, t)])],
        evicted |-> None]

\* evicted is the evicted_key the method logs, None when it evicts nothing.
\* A variant of set: the entry pushed out for capacity is not counted.
LRUCache_set_uncounted(self, key, value, ttl_seconds, t) ==
    LET removed == IF Contains(self.cache, key) THEN DelKey(self.cache, key)
                   ELSE self.cache
        added == Append(removed, [key |-> key, entry |-> CacheEntry(value, ttl_seconds, t)])
    IN IF Len(added) > self.max_size
       THEN [self |-> [self EXCEPT !.cache = popitem_first(added)], evicted |-> Head(added).key]
       ELSE [self |-> [self EXCEPT !.cache = added], evicted |-> None]

\* A variant of set: a full cache gives up its oldest expired entry, and its
\* least recently used entry only when none is expired.
LRUCache_set_expired_first(self, key, value, ttl_seconds, t) ==
    LET removed == IF Contains(self.cache, key) THEN DelKey(self.cache, key)
                   ELSE self.cache
        added == Append(removed, [key |-> key, entry |-> CacheEntry(value, ttl_seconds, t)])
        expired == {i \in 1..Len(added) : is_expired(added[i].entry, t)}
        victim == IF expired = {} THEN 1 ELSE CHOOSE i \in expired : \A j \in expired : i <= j
    IN IF Len(added) > self.max_size
       THEN [self |-> [self EXCEPT !.cache = DelKey(added, added[victim].key),
                                   !.evictions = @ + 1],
             evicted |-> added[victim].key]
       ELSE [self |-> [self EXCEPT !.cache = added], evicted |-> None]

\* A variant of set: a present key is assigned where it stands, without the
\* `del` that moves it to the end.
LRUCache_set_in_place(self, key, value, ttl_seconds, t) ==
    LET added == IF Contains(self.cache, key)
                 THEN [i \in 1..Len(self.cache) |->
                         IF self.cache[i].key = key
                         THEN [key |-> key, entry |-> CacheEntry(value, ttl_seconds, t)]
                         ELSE self.cache[i]]
                 ELSE Append(self.cache,
                             [key |-> key, entry |-> CacheEntry(value, ttl_seconds, t)])
    IN IF Len(added) > self.max_size
       THEN [self |-> [self EXCEPT !.cache = popitem_first(added), !.evictions = @ + 1],
             evicted |-> Head(added).key]
       ELSE [self |-> [self EXCEPT !.cache = added], evicted |-> None]

LRUCache_set(self, key, value, ttl_seconds, t) ==
    LET removed == IF Contains(self.cache, key) THEN DelKey(self.cache, key)
                   ELSE self.cache
        added == Append(removed, [key |-> key, entry |-> CacheEntry(value, ttl_seconds, t)])
    IN IF Len(added) > self.max_size
       THEN [self |-> [self EXCEPT !.cache = popitem_first(added), !.evictions = @ + 1],
             evicted |-> Head(added).key]
       ELSE [self |-> [self EXCEPT !.cache = added], evicted |-> None]

\* A variant of delete: a key that is absent counts as a miss.
LRUCache_delete_counted(self, key) ==
    IF Contains(self.cache, key)
    THEN [self |-> [self EXCEPT !.cache = DelKey(self.cache, key)], ret |-> TRUE]
    ELSE [self |-> [self EXCEPT !.misses = @ + 1], ret |-> FALSE]

LRUCache_delete(self, key) ==
    IF Contains(self.cache, key)
    THEN [self |-> [self EXCEPT !.cache = DelKey(self.cache, key)], ret |-> TRUE]
    ELSE [self |-> self, ret |-> FALSE]

\* A variant of clear: the entries go, the counters stay.
LRUCache_clear_entries_only(self) == [self EXCEPT !.cache = <<>>]

LRUCache_clear(self) ==
    [self EXCEPT !.cache = <<>>, !.hits = 0, !.misses = 0, !.evictions = 0]

\* A variant of hit_rate: the rate is cut after two decimals, not rounded.
hit_rate_truncated(hits, total_requests) ==
    IF total_requests > 0 THEN (10000 * hits) \div total_requests ELSE 0

\* round(hits / total_requests * 100, 2), in hundredths of a percent
hit_rate(hits, total_requests) ==
    IF total_requests > 0
    THEN (2 * 10000 * hits + total_requests) \div (2 * total_requests)
    ELSE 0

LRUCache_get_stats(self) ==
    LET total_requests == self.hits + self.misses IN
    [size |-> Len(self.cache),
     max_size |-> self.max_size,
     hits |-> self.hits,
     misses |-> self.misses,
     evictions |-> self.evictions,
     hit_rate_percent |-> hit_rate(self.hits, total_requests),
     total_requests |-> total_requests]

\* A variant of cleanup_expired: the entries swept are counted as evictions.
LRUCache_cleanup_expired_counted(self, t) ==
    LET expired_keys == {k \in KeysOf(self.cache) : is_expired(Lookup(self.cache, k), t)} IN
    [self |-> [self EXCEPT !.cache = SelectSeq(self.cache, LAMBDA e : e.key \notin expired_keys),
                           !.evictions = @ + Cardinality(expired_keys)],
     ret |-> Cardinality(expired_keys)]

\* A variant of cleanup_expired: the sweep also starts the counters afresh.
LRUCache_cleanup_expired_resets(self, t) ==
    LET expired_keys == {k \in KeysOf(self.cache) : is_expired(Lookup(self.cache, k), t)} IN
    [self |-> [self EXCEPT !.cache = SelectSeq(self.cache, LAMBDA e : e.key \notin expired_keys),
                           !.hits = 0, !.misses = 0, !.evictions = 0],
     ret |-> Cardinality(expired_keys)]

\* A variant of cleanup_expired: every entry is swept, expired or not.
LRUCache_cleanup_expired_all(self, t) ==
    [self |-> [self EXCEPT !.cache = <<>>], ret |-> Len(self.cache)]

\* A variant of cleanup_expired: the sweep stops at the first expired entry.
LRUCache_cleanup_expired_first(self, t) ==
    LET expired == {i \in 1..Len(self.cache) : is_expired(self.cache[i].entry, t)}
        first == IF expired = {} THEN 0 ELSE CHOOSE i \in expired : \A j \in expired : i <= j
    IN [self |-> [self EXCEPT !.cache = [i \in 1..(Len(@) - (IF first = 0 THEN 0 ELSE 1)) |->
                                           IF first = 0 \/ i < first THEN @[i] ELSE @[i + 1]]],
        ret |-> IF first = 0 THEN 0 ELSE 1]

LRUCache_cleanup_expired(self, t) ==
    LET expired_keys == {k \in KeysOf(self.cache) : is_expired(Lookup(self.cache, k), t)} IN
    [self |-> [self EXCEPT !.cache = SelectSeq(self.cache, LAMBDA e : e.key \notin expired_keys)],
     ret |-> Cardinality(expired_keys)]

\* ------------------------------------------------------- Python values
\* The values the facade's parameter bags hold. A dict is the sequence of its
\* items in insertion order, a list the sequence of its elements.
PyNone == [type |-> "None", s |-> "", n |-> 0, items |-> <<>>]
PyStr(str) == [type |-> "str", s |-> str, n |-> 0, items |-> <<>>]
PyInt(int) == [type |-> "int", s |-> "", n |-> int, items |-> <<>>]
PyDict(items) == [type |-> "dict", s |-> "", n |-> 0, items |-> items]
PyList(elems) == [type |-> "list", s |-> "", n |-> 0, items |-> elems]
\* An object json has no encoding for (a set, a datetime, ...); s is str(o).
PyObj(str) == [type |-> "object", s |-> str, n |-> 0, items |-> <<>>]
Item(key, value) == [key |-> key, value |-> value]

\* bool(v)
Truthy(v) ==
    CASE v.type = "None" -> FALSE
      [] v.type = "str" -> v.s # ""
      [] v.type = "int" -> v.n # 0
      [] OTHER -> v.items # <<>>

\* A variant of Or: a is taken as given, falsy or not.
Or_as_given(a, b) == a

\* a or b
Or(a, b) == IF Truthy(a) THEN a ELSE b

\* ---------------------------------------------------------- json.dumps
\* The dict keys the parameter bags use, in Python's str order.
KeyNames == <<"a", "b", "context", "filters", "limit", "query", "text", "x", "y">>

KeyRank(name) == CHOOSE i \in 1..Len(KeyNames) : KeyNames[i] = name

\* A variant of sort_keys: the items are written in insertion order.
sort_keys_off(items) == items

\* sorted(dct.items()), what sort_keys=True iterates
sort_keys(items) == SortSeq(items, LAMBDA a, b : KeyRank(a.key) < KeyRank(b.key))

RECURSIVE Join(_)
\* ", ".join(strs)
Join(strs) ==
    IF Len(strs) = 0 THEN ""
    ELSE IF Len(strs) = 1 THEN strs[1]
    ELSE strs[1] \o ", " \o Join(Tail(strs))

\* The dict keys that stand for a key json cannot write: a tuple.
NonStrKeys == {"(1, 2)"}

RECURSIVE json_raises(_)
\* Whether json.dumps(v, sort_keys=True, default=str) raises TypeError: a dict
\* in v has a key that is no str, int, float, bool or None. default is
\* applied to values only.
json_raises(v) ==
    CASE v.type = "dict" ->
            \E i \in 1..Len(v.items) :
               v.items[i].key \in NonStrKeys \/ json_raises(v.items[i].value)
      [] v.type = "list" -> \E i \in 1..Len(v.items) : json_raises(v.items[i])
      [] OTHER -> FALSE

RECURSIVE json_dumps(_)
\* json.dumps(v, sort_keys=True, default=str), for a v it does not raise on
json_dumps(v) ==
    CASE v.type = "None" -> "null"
      [] v.type = "str" -> "\"" \o v.s \o "\""
      [] v.type = "object" -> "\"" \o v.s \o "\""
      [] v.type = "int" -> ToString(v.n)
      [] v.type = "list" ->
            "[" \o Join([i \in 1..Len(v.items) |-> json_dumps(v.items[i])]) \o "]"
      [] v.type = "dict" ->
            LET items == sort_keys(v.items) IN
            "{" \o Join([i \in 1..Len(items) |->
                           "\"" \o items[i].key \o "\": " \o json_dumps(items[i].value)])
                \o "}"

\* ------------------------------------------- inputs of key derivation
Operations == {"search", "embedding", "vector", "integrated"}

\* The orders the elements of a sequence can be written in.
Orders(seq) ==
    LET n == Len(seq)
        perms == {f \in [1..n -> 1..n] : \A i, j \in 1..n : i # j => f[i] # f[j]}
    IN {[i \in 1..n |-> seq[f[i]]] : f \in perms}

RECURSIVE AllOrders(_)
\* The values that hold what v holds, the items of every dict (at any depth)
\* inserted in any order.
AllOrders(v) ==
    IF v.type = "dict"
    THEN UNION {
           {PyDict([i \in 1..Len(items) |-> Item(items[i].key, vals[i])]) :
              vals \in {q \in [1..Len(items) -> UNION {AllOrders(items[k].value) : k \in 1..Len(items)}] :
                          \A i \in 1..Len(items) : q[i] \in AllOrders(items[i].value)}}
           : items \in Orders(v.items)}
    ELSE IF v.type = "list"
    THEN {PyList(elems) :
            elems \in {q \in [1..Len(v.items) -> UNION {AllOrders(v.items[k]) : k \in 1..Len(v.items)}] :
                         \A i \in 1..Len(v.items) : q[i] \in AllOrders(v.items[i])}}
    ELSE {v}

\* Parameter bags, one insertion order of each.
Bags ==
    {PyDict(<<Item("query", PyStr("a")),
              Item("filters", PyDict(<<Item("x", PyInt(1)), Item("y", PyInt(2))>>))>>),
     PyDict(<<Item("query", PyStr("a")),
              Item("filters", PyDict(<<Item("x", PyInt(2)), Item("y", PyInt(1))>>))>>),
     PyDict(<<Item("query", PyStr("a")),
              Item("filters", PyDict(<<Item("x", PyInt(1)),
                                       Item("y", PyDict(<<Item("a", PyInt(1)),
                                                          Item("b", PyInt(2))>>))>>)),
              Item("limit", PyInt(20))>>),
     PyDict(<<Item("query", PyStr("b")),
              Item("context", PyList(<<PyDict(<<Item("x", PyInt(1)), Item("y", PyNone)>>),
                                       PyStr("a")>>))>>),
     PyDict(<<Item("query", PyStr("b")), Item("limit", PyInt(10))>>),
     PyDict(<<Item("text", PyStr("t1"))>>)}

\* The same bags in every insertion order.
ParamBags == UNION {AllOrders(bag) : bag \in Bags}

\* hashlib.md5(key_content.encode()).hexdigest()[:16], tabulated for the
\* key contents the parameter bags of this module produce.
md5_hexdigest_16(key_content) ==
    CASE key_content = "embedding:{\"context\": [{\"x\": 1, \"y\": null}, \"a\"], \"query\": \"b\"}" -> "c779fbf9d17ddae8"
      [] key_content = "embedding:{\"context\": [{\"y\": null, \"x\": 1}, \"a\"], \"query\": \"b\"}" -> "c8ebda5b7735a9cc"
      [] key_content = "embedding:{\"filters\": {\"x\": 1, \"y\": 2}, \"query\": \"a\"}" -> "08d916262884fc4c"
      [] key_content = "embedding:{\"filters\": {\"x\": 1, \"y\": {\"a\": 1, \"b\": 2}}, \"limit\": 20, \"query\": \"a\"}" -> "8e3c63f9b6116539"
      [] key_content = "embedding:{\"filters\": {\"x\": 1, \"y\": {\"a\": 1, \"b\": 2}}, \"query\": \"a\", \"limit\": 20}" -> "6f5e338edce4dcab"
      [] key_content = "embedding:{\"filters\": {\"x\": 1, \"y\": {\"b\": 2, \"a\": 1}}, \"limit\": 20, \"query\": \"a\"}" -> "e11acfa64180d318"
      [] key_content = "embedding:{\"filters\": {\"x\": 1, \"y\": {\"b\": 2, \"a\": 1}}, \"query\": \"a\", \"limit\": 20}" -> "44c84c6a8b225bed"
      [] key_content = "embedding:{\"filters\": {\"x\": 2, \"y\": 1}, \"query\": \"a\"}" -> "359d99a500cbb495"
      [] key_content = "embedding:{\"filters\": {\"y\": 1, \"x\": 2}, \"query\": \"a\"}" -> "8380591032161100"
      [] key_content = "embedding:{\"filters\": {\"y\": 2, \"x\": 1}, \"query\": \"a\"}" -> "cd75e292787cd454"
      [] key_content = "embedding:{\"filters\": {\"y\": {\"a\": 1, \"b\": 2}, \"x\": 1}, \"limit\": 20, \"query\": \"a\"}" -> "e778be87dd470f35"
      [] key_content = "embedding:{\"filters\": {\"y\": {\"a\": 1, \"b\": 2}, \"x\": 1}, \"query\": \"a\", \"limit\": 20}" -> "59c3d3fa38c2e458"
      [] key_content = "embedding:{\"filters\": {\"y\": {\"b\": 2, \"a\": 1}, \"x\": 1}, \"limit\": 20, \"query\": \"a\"}" -> "2ac886d2cc90796a"
      [] key_content = "embedding:{\"filters\": {\"y\": {\"b\": 2, \"a\": 1}, \"x\": 1}, \"query\": \"a\", \"limit\": 20}" -> "99805bb094bf2f57"
      [] key_content = "embedding:{\"limit\": 10, \"query\": \"b\"}" -> "d4fa5e834df2999a"
      [] key_content = "embedding:{\"limit\": 20, \"filters\": {\"x\": 1, \"y\": {\"a\": 1, \"b\": 2}}, \"query\": \"a\"}" -> "22a0d913ec3d4f7b"
      [] key_content = "embedding:{\"limit\": 20, \"filters\": {\"x\": 1, \"y\": {\"b\": 2, \"a\": 1}}, \"query\": \"a\"}" -> "8c773a448cb3ac39"
      [] key_content = "embedding:{\"limit\": 20, \"filters\": {\"y\": {\"a\": 1, \"b\": 2}, \"x\": 1}, \"query\": \"a\"}" -> "b334ad03543963a7"
      [] key_content = "embedding:{\"limit\": 20, \"filters\": {\"y\": {\"b\": 2, \"a\": 1}, \"x\": 1}, \"query\": \"a\"}" -> "c25eaae3a36c0dd8"
      [] key_content = "embedding:{\"limit\": 20, \"query\": \"a\", \"filters\": {\"x\": 1, \"y\": {\"a\": 1, \"b\": 2}}}" -> "34335878b6a8579c"
      [] key_content = "embedding:{\"limit\": 20, \"query\": \"a\", \"filters\": {\"x\": 1, \"y\": {\"b\": 2, \"a\": 1}}}" -> "ecba07a70fd41a41"
      [] key_content = "embedding:{\"limit\": 20, \"query\": \"a\", \"filters\": {\"y\": {\"a\": 1, \"b\": 2}, \"x\": 1}}" -> "fa0c2b2e08f606c8"
      [] key_content = "embedding:{\"limit\": 20, \"query\": \"a\", \"filters\": {\"y\": {\"b\": 2, \"a\": 1}, \"x\": 1}}" -> "757e3d9ae1c52f1d"
      [] key_content = "embedding:{\"query\": \"a\", \"filters\": {\"x\": 1, \"y\": 2}}" -> "22fe05139ad203bc"
      [] key_content = "embedding:{\"query\": \"a\", \"filters\": {\"x\": 1, \"y\": {\"a\": 1, \"b\": 2}}, \"limit\": 20}" -> "15c0d742f0824d47"
      [] key_content = "embedding:{\"query\": \"a\", \"filters\": {\"x\": 1, \"y\": {\"b\": 2, \"a\": 1}}, \"limit\": 20}" -> "c2be8f0a940e5483"
      [] key_content = "embedding:{\"query\": \"a\", \"filters\": {\"x\": 2, \"y\": 1}}" -> "c78b84be61627cde"
      [] key_content = "embedding:{\"query\": \"a\", \"filters\": {\"y\": 1, \"x\": 2}}" -> "cc4d2bc7bd579d4b"
      [] key_content = "embedding:{\"query\": \"a\", \"filters\": {\"y\": 2, \"x\": 1}}" -> "16645d261e0cfffa"
      [] key_content = "embedding:{\"query\": \"a\", \"filters\": {\"y\": {\"a\": 1, \"b\": 2}, \"x\": 1}, \"limit\": 20}" -> "d224785fd87f70ea"
      [] key_content = "embedding:{\"query\": \"a\", \"filters\": {\"y\": {\"b\": 2, \"a\": 1}, \"x\": 1}, \"limit\": 20}" -> "3c2710c8ffb860eb"
      [] key_content = "embedding:{\"query\": \"a\", \"limit\": 20, \"filters\": {\"x\": 1, \"y\": {\"a\": 1, \"b\": 2}}}" -> "94d7842e230fcad7"
      [] key_content = "embedding:{\"query\": \"a\", \"limit\": 20, \"filters\": {\"x\": 1, \"y\": {\"b\": 2, \"a\": 1}}}" -> "b3134a08393e306b"
      [] key_content = "embedding:{\"query\": \"a\", \"limit\": 20, \"filters\": {\"y\": {\"a\": 1, \"b\": 2}, \"x\": 1}}" -> "937e1c680ff85b76"
      [] key_content = "embedding:{\"query\": \"a\", \"limit\": 20, \"filters\": {\"y\": {\"b\": 2, \"a\": 1}, \"x\": 1}}" -> "4688a2061889e64b"
      [] key_content = "embedding:{\"query\": \"b\", \"context\": [{\"x\": 1, \"y\": null}, \"a\"]}" -> "04b3be78c8b1860b"
      [] key_content = "embedding:{\"query\": \"b\", \"context\": [{\"y\": null, \"x\": 1}, \"a\"]}" -> "147a3576664f40e0"
      [] key_content = "embedding:{\"query\": \"b\", \"limit\": 10}" -> "3da60db1c6448c0f"
      [] key_content = "embedding:{\"text\": \"t1\"}" -> "7d51158d474a4e40"
      [] key_content = "integrated:{\"context\": [], \"query\": \"q1\"}" -> "363783ef43e0155a"
      [] key_content = "integrated:{\"context\": [{\"x\": 1, \"y\": null}, \"a\"], \"query\": \"b\"}" -> "8e39716431a021c4"
      [] key_content = "integrated:{\"context\": [{\"y\": null, \"x\": 1}, \"a\"], \"query\": \"b\"}" -> "47e5b93688002903"
      [] key_content = "integrated:{\"filters\": {\"x\": 1, \"y\": 2}, \"query\": \"a\"}" -> "716f4108a352b59e"
      [] key_content = "integrated:{\"filters\": {\"x\": 1, \"y\": {\"a\": 1, \"b\": 2}}, \"limit\": 20, \"query\": \"a\"}" -> "58e4f687033d07d8"
      [] key_content = "integrated:{\"filters\": {\"x\": 1, \"y\": {\"a\": 1, \"b\": 2}}, \"query\": \"a\", \"limit\": 20}" -> "3fbf50f7ae0f4f1c"
      [] key_content = "integrated:{\"filters\": {\"x\": 1, \"y\": {\"b\": 2, \"a\": 1}}, \"limit\": 20, \"query\": \"a\"}" -> "9670aef25b168ad3"
      [] key_content = "integrated:{\"filters\": {\"x\": 1, \"y\": {\"b\": 2, \"a\": 1}}, \"query\": \"a\", \"limit\": 20}" -> "c3d154f82d995f98"
      [] key_content = "integrated:{\"filters\": {\"x\": 2, \"y\": 1}, \"query\": \"a\"}" -> "c522f9d93b656c4c"
      [] key_content = "integrated:{\"filters\": {\"y\": 1, \"x\": 2}, \"query\": \"a\"}" -> "a1479be35dc312ee"
      [] key_content = "integrated:{\"filters\": {\"y\": 2, \"x\": 1}, \"query\": \"a\"}" -> "62876e56f0fdc720"
      [] key_content = "integrated:{\"filters\": {\"y\": {\"a\": 1, \"b\": 2}, \"x\": 1}, \"limit\": 20, \"query\": \"a\"}" -> "2eeef8d5e8e2b9f8"
      [] key_content = "integrated:{\"filters\": {\"y\": {\"a\": 1, \"b\": 2}, \"x\": 1}, \"query\": \"a\", \"limit\": 20}" -> "772d2cd179845b97"
      [] key_content = "integrated:{\"filters\": {\"y\": {\"b\": 2, \"a\": 1}, \"x\": 1}, \"limit\": 20, \"query\": \"a\"}" -> "a28da5ed37724dae"
      [] key_content = "integrated:{\"filters\": {\"y\": {\"b\": 2, \"a\": 1}, \"x\": 1}, \"query\": \"a\", \"limit\": 20}" -> "3121482b407c5760"
      [] key_content = "integrated:{\"limit\": 10, \"query\": \"b\"}" -> "d2ab98211d1e8187"
      [] key_content = "integrated:{\"limit\": 20, \"filters\": {\"x\": 1, \"y\": {\"a\": 1, \"b\": 2}}, \"query\": \"a\"}" -> "0f4172e52bed9df9"
      [] key_content = "integrated:{\"limit\": 20, \"filters\": {\"x\": 1, \"y\": {\"b\": 2, \"a\": 1}}, \"query\": \"a\"}" -> "93d51cc9e1dc52eb"
      [] key_content = "integrated:{\"limit\": 20, \"filters\": {\"y\": {\"a\": 1, \"b\": 2}, \"x\": 1}, \"query\": \"a\"}" -> "b46ab5eacded0272"
      [] key_content = "integrated:{\"limit\": 20, \"filters\": {\"y\": {\"b\": 2, \"a\": 1}, \"x\": 1}, \"query\": \"a\"}" -> "718298104f850cf9"
      [] key_content = "integrated:{\"limit\": 20, \"query\": \"a\", \"filters\": {\"x\": 1, \"y\": {\"a\": 1, \"b\": 2}}}" -> "07e3b34c26c28664"
      [] key_content = "integrated:{\"limit\": 20, \"query\": \"a\", \"filters\": {\"x\": 1, \"y\": {\"b\": 2, \"a\": 1}}}" -> "cae2fe04f5a51fa1"
      [] key_content = "integrated:{\"limit\": 20, \"query\": \"a\", \"filters\": {\"y\": {\"a\": 1, \"b\": 2}, \"x\": 1}}" -> "344bb15b9757af77"
      [] key_content = "integrated:{\"limit\": 20, \"query\": \"a\", \"filters\": {\"y\": {\"b\": 2, \"a\": 1}, \"x\": 1}}" -> "73644ec8f1bd3480"
      [] key_content = "integrated:{\"query\": \"a\", \"filters\": {\"x\": 1, \"y\": 2}}" -> "0ffc47af392a7124"
      [] key_content = "integrated:{\"query\": \"a\", \"filters\": {\"x\": 1, \"y\": {\"a\": 1, \"b\": 2}}, \"limit\": 20}" -> "e756f2c50ded4ea1"
      [] key_content = "integrated:{\"query\": \"a\", \"filters\": {\"x\": 1, \"y\": {\"b\": 2, \"a\": 1}}, \"limit\": 20}" -> "46b5bcd0a22c5f6f"
      [] key_content = "integrated:{\"query\": \"a\", \"filters\": {\"x\": 2, \"y\": 1}}" -> "6a5509e39b903e40"
      [] key_content = "integrated:{\"query\": \"a\", \"filters\": {\"y\": 1, \"x\": 2}}" -> "3bbeb7c2b4ed7bc0"
      [] key_content = "integrated:{\"query\": \"a\", \"filters\": {\"y\": 2, \"x\": 1}}" -> "2772033d237f77c9"
      [] key_content = "integrated:{\"query\": \"a\", \"filters\": {\"y\": {\"a\": 1, \"b\": 2}, \"x\": 1}, \"limit\": 20}" -> "07e25fe0f9afbc06"
      [] key_content = "integrated:{\"query\": \"a\", \"filters\": {\"y\": {\"b\": 2, \"a\": 1}, \"x\": 1}, \"limit\": 20}" -> "3ca99a5f40205386"
      [] key_content = "integrated:{\"query\": \"a\", \"limit\": 20, \"filters\": {\"x\": 1, \"y\": {\"a\": 1, \"b\": 2}}}" -> "f6f59b3d9ebcb7ad"
      [] key_content = "integrated:{\"query\": \"a\", \"limit\": 20, \"filters\": {\"x\": 1, \"y\": {\"b\": 2, \"a\": 1}}}" -> "1aabd3b13c519d7f"
      [] key_content = "integrated:{\"query\": \"a\", \"limit\": 20, \"filters\": {\"y\": {\"a\": 1, \"b\": 2}, \"x\": 1}}" -> "ca0d1712a655506b"
      [] key_content = "integrated:{\"query\": \"a\", \"limit\": 20, \"filters\": {\"y\": {\"b\": 2, \"a\": 1}, \"x\": 1}}" -> "9d3f72f82747aede"
      [] key_content = "integrated:{\"query\": \"b\", \"context\": [{\"x\": 1, \"y\": null}, \"a\"]}" -> "5a1560843562dbda"
      [] key_content = "integrated:{\"query\": \"b\", \"context\": [{\"y\": null, \"x\": 1}, \"a\"]}" -> "4c42857c44c45b73"
      [] key_content = "integrated:{\"query\": \"b\", \"limit\": 10}" -> "62066d6158cc0fb5"
      [] key_content = "integrated:{\"query\": \"q1\", \"context\": []}" -> "22be55c14dc02ad1"
      [] key_content = "integrated:{\"text\": \"t1\"}" -> "30e177f0f4e0693e"
      [] key_content = "search:{\"context\": [{\"x\": 1, \"y\": null}, \"a\"], \"query\": \"b\"}" -> "091e1182de32e29b"
      [] key_content = "search:{\"context\": [{\"y\": null, \"x\": 1}, \"a\"], \"query\": \"b\"}" -> "767304b1397c0e41"
      [] key_content = "search:{\"filters\": {\"x\": 1, \"y\": 2}, \"query\": \"a\"}" -> "b87aa937ec60065a"
      [] key_content = "search:{\"filters\": {\"x\": 1, \"y\": {\"a\": 1, \"b\": 2}}, \"limit\": 20, \"query\": \"a\"}" -> "defc398bd759fa3b"
      [] key_content = "search:{\"filters\": {\"x\": 1, \"y\": {\"a\": 1, \"b\": 2}}, \"query\": \"a\", \"limit\": 20}" -> "d031ad4337f6b4f2"
      [] key_content = "search:{\"filters\": {\"x\": 1, \"y\": {\"b\": 2, \"a\": 1}}, \"limit\": 20, \"query\": \"a\"}" -> "622bb4421aa39696"
      [] key_content = "search:{\"filters\": {\"x\": 1, \"y\": {\"b\": 2, \"a\": 1}}, \"query\": \"a\", \"limit\": 20}" -> "abec51047ebe4dcb"
      [] key_content = "search:{\"filters\": {\"x\": 2, \"y\": 1}, \"query\": \"a\"}" -> "4f00a02dd44fe652"
      [] key_content = "search:{\"filters\": {\"y\": 1, \"x\": 2}, \"query\": \"a\"}" -> "bfd020cf543f300b"
      [] key_content = "search:{\"filters\": {\"y\": 2, \"x\": 1}, \"query\": \"a\"}" -> "2b031909206e07dd"
      [] key_content = "search:{\"filters\": {\"y\": {\"a\": 1, \"b\": 2}, \"x\": 1}, \"limit\": 20, \"query\": \"a\"}" -> "50e2aa7eb4936b37"
      [] key_content = "search:{\"filters\": {\"y\": {\"a\": 1, \"b\": 2}, \"x\": 1}, \"query\": \"a\", \"limit\": 20}" -> "5618fafea1c9aa6b"
      [] key_content = "search:{\"filters\": {\"y\": {\"b\": 2, \"a\": 1}, \"x\": 1}, \"limit\": 20, \"query\": \"a\"}" -> "7ede78fd4a2e90f9"
      [] key_content = "search:{\"filters\": {\"y\": {\"b\": 2, \"a\": 1}, \"x\": 1}, \"query\": \"a\", \"limit\": 20}" -> "8ec6c566d020bee2"
      [] key_content = "search:{\"filters\": {}, \"limit\": 20, \"query\": \"q1\"}" -> "acb2f404a6b88d91"
      [] key_content = "search:{\"filters\": {}, \"limit\": 20, \"query\": \"q2\"}" -> "9606501295b1bc04"
      [] key_content = "search:{\"filters\": {}, \"limit\": 20, \"query\": \"q3\"}" -> "ece2ff0cb0145ead"
      [] key_content = "search:{\"limit\": 10, \"query\": \"b\"}" -> "2508d7d79a6bf3ae"
      [] key_content = "search:{\"limit\": 20, \"filters\": {\"x\": 1, \"y\": {\"a\": 1, \"b\": 2}}, \"query\": \"a\"}" -> "47bf1f2da63b64de"
      [] key_content = "search:{\"limit\": 20, \"filters\": {\"x\": 1, \"y\": {\"b\": 2, \"a\": 1}}, \"query\": \"a\"}" -> "843c95d7f9863b53"
      [] key_content = "search:{\"limit\": 20, \"filters\": {\"y\": {\"a\": 1, \"b\": 2}, \"x\": 1}, \"query\": \"a\"}" -> "04903faa7cccfcfb"
      [] key_content = "search:{\"limit\": 20, \"filters\": {\"y\": {\"b\": 2, \"a\": 1}, \"x\": 1}, \"query\": \"a\"}" -> "98a5cea87a1f895e"
      [] key_content = "search:{\"limit\": 20, \"query\": \"a\", \"filters\": {\"x\": 1, \"y\": {\"a\": 1, \"b\": 2}}}" -> "0ef9b6068936e399"
      [] key_content = "search:{\"limit\": 20, \"query\": \"a\", \"filters\": {\"x\": 1, \"y\": {\"b\": 2, \"a\": 1}}}" -> "4ebd0560477e9c05"
      [] key_content = "search:{\"limit\": 20, \"query\": \"a\", \"filters\": {\"y\": {\"a\": 1, \"b\": 2}, \"x\": 1}}" -> "fd8bf4ee2396c046"
      [] key_content = "search:{\"limit\": 20, \"query\": \"a\", \"filters\": {\"y\": {\"b\": 2, \"a\": 1}, \"x\": 1}}" -> "f943ea425d5cd75b"
      [] key_content = "search:{\"query\": \"a\", \"filters\": {\"x\": 1, \"y\": 2}}" -> "f605c956a3f2a953"
      [] key_content = "search:{\"query\": \"a\", \"filters\": {\"x\": 1, \"y\": {\"a\": 1, \"b\": 2}}, \"limit\": 20}" -> "bd7eab250dc6a0d8"
      [] key_content = "search:{\"query\": \"a\", \"filters\": {\"x\": 1, \"y\": {\"b\": 2, \"a\": 1}}, \"limit\": 20}" -> "016fb27976f66070"
      [] key_content = "search:{\"query\": \"a\", \"filters\": {\"x\": 2, \"y\": 1}}" -> "dbb657db6b6559a4"
      [] key_content = "search:{\"query\": \"a\", \"filters\": {\"y\": 1, \"x\": 2}}" -> "64b936c88485b547"
      [] key_content = "search:{\"query\": \"a\", \"filters\": {\"y\": 2, \"x\": 1}}" -> "59713ccee7688337"
      [] key_content = "search:{\"query\": \"a\", \"filters\": {\"y\": {\"a\": 1, \"b\": 2}, \"x\": 1}, \"limit\": 20}" -> "1b8894f56edd8a48"
      [] key_content = "search:{\"query\": \"a\", \"filters\": {\"y\": {\"b\": 2, \"a\": 1}, \"x\": 1}, \"limit\": 20}" -> "8eea27b4a3e15acb"
      [] key_content = "search:{\"query\": \"a\", \"limit\": 20, \"filters\": {\"x\": 1, \"y\": {\"a\": 1, \"b\": 2}}}" -> "78d96ee3de628b17"
      [] key_content = "search:{\"query\": \"a\", \"limit\": 20, \"filters\": {\"x\": 1, \"y\": {\"b\": 2, \"a\": 1}}}" -> "56127c09331f47e7"
      [] key_content = "search:{\"query\": \"a\", \"limit\": 20, \"filters\": {\"y\": {\"a\": 1, \"b\": 2}, \"x\": 1}}" -> "2fa8dbeb0434849b"
      [] key_content = "search:{\"query\": \"a\", \"limit\": 20, \"filters\": {\"y\": {\"b\": 2, \"a\": 1}, \"x\": 1}}" -> "b5e0a22fd751b502"
      [] key_content = "search:{\"query\": \"b\", \"context\": [{\"x\": 1, \"y\": null}, \"a\"]}" -> "fa7bc8701e6ca74a"
      [] key_content = "search:{\"query\": \"b\", \"context\": [{\"y\": null, \"x\": 1}, \"a\"]}" -> "d58f452cdc5f5c94"
      [] key_content = "search:{\"query\": \"b\", \"limit\": 10}" -> "9979d6bb9409e0b5"
      [] key_content = "search:{\"query\": \"q1\", \"filters\": {}, \"limit\": 20}" -> "a26cbff215b771c5"
      [] key_content = "search:{\"query\": \"q2\", \"filters\": {}, \"limit\": 20}" -> "56d9f7f840fe904e"
      [] key_content = "search:{\"query\": \"q3\", \"filters\": {}, \"limit\": 20}" -> "110955695bf0d0b2"
      [] key_content = "search:{\"text\": \"t1\"}" -> "10523f13f2be9504"
      [] key_content = "vector:{\"context\": [{\"x\": 1, \"y\": null}, \"a\"], \"query\": \"b\"}" -> "db936a8402a8b7c0"
      [] key_content = "vector:{\"context\": [{\"y\": null, \"x\": 1}, \"a\"], \"query\": \"b\"}" -> "dcbc983ec6fdfdd0"
      [] key_content = "vector:{\"filters\": {\"x\": 1, \"y\": 2}, \"query\": \"a\"}" -> "f3df8672deca48de"
      [] key_content = "vector:{\"filters\": {\"x\": 1, \"y\": {\"a\": 1, \"b\": 2}}, \"limit\": 20, \"query\": \"a\"}" -> "5c6ecefc624329a4"
      [] key_content = "vector:{\"filters\": {\"x\": 1, \"y\": {\"a\": 1, \"b\": 2}}, \"query\": \"a\", \"limit\": 20}" -> "d0b192cbd9ad20f8"
      [] key_content = "vector:{\"filters\": {\"x\": 1, \"y\": {\"b\": 2, \"a\": 1}}, \"limit\": 20, \"query\": \"a\"}" -> "567f446fe58cc6cb"
      [] key_content = "vector:{\"filters\": {\"x\": 1, \"y\": {\"b\": 2, \"a\": 1}}, \"query\": \"a\", \"limit\": 20}" -> "76ca8adc3087c4b2"
      [] key_content = "vector:{\"filters\": {\"x\": 2, \"y\": 1}, \"query\": \"a\"}" -> "2c37443b54cdcb7f"
      [] key_content = "vector:{\"filters\": {\"y\": 1, \"x\": 2}, \"query\": \"a\"}" -> "6c125ecd3442a48e"
      [] key_content = "vector:{\"filters\": {\"y\": 2, \"x\": 1}, \"query\": \"a\"}" -> "cee338c974de75c9"
      [] key_content = "vector:{\"filters\": {\"y\": {\"a\": 1, \"b\": 2}, \"x\": 1}, \"limit\": 20, \"query\": \"a\"}" -> "45bfd10ba359f839"
      [] key_content = "vector:{\"filters\": {\"y\": {\"a\": 1, \"b\": 2}, \"x\": 1}, \"query\": \"a\", \"limit\": 20}" -> "765aecff603af954"
      [] key_content = "vector:{\"filters\": {\"y\": {\"b\": 2, \"a\": 1}, \"x\": 1}, \"limit\": 20, \"query\": \"a\"}" -> "43a9033693325945"
      [] key_content = "vector:{\"filters\": {\"y\": {\"b\": 2, \"a\": 1}, \"x\": 1}, \"query\": \"a\", \"limit\": 20}" -> "510c3568d7f66aab"
      [] key_content = "vector:{\"limit\": 10, \"query\": \"b\"}" -> "14fb453d72512560"
      [] key_content = "vector:{\"limit\": 10, \"query\": \"q1\"}" -> "2675694039b365eb"
      [] key_content = "vector:{\"limit\": 20, \"filters\": {\"x\": 1, \"y\": {\"a\": 1, \"b\": 2}}, \"query\": \"a\"}" -> "9cee7441c75457f8"
      [] key_content = "vector:{\"limit\": 20, \"filters\": {\"x\": 1, \"y\": {\"b\": 2, \"a\": 1}}, \"query\": \"a\"}" -> "f167fddcd93bb999"
      [] key_content = "vector:{\"limit\": 20, \"filters\": {\"y\": {\"a\": 1, \"b\": 2}, \"x\": 1}, \"query\": \"a\"}" -> "eca292ea214bb4d5"
      [] key_content = "vector:{\"limit\": 20, \"filters\": {\"y\": {\"b\": 2, \"a\": 1}, \"x\": 1}, \"query\": \"a\"}" -> "2e32842ac251f9b4"
      [] key_content = "vector:{\"limit\": 20, \"query\": \"a\", \"filters\": {\"x\": 1, \"y\": {\"a\": 1, \"b\": 2}}}" -> "c36184cec4b7f5bc"
      [] key_content = "vector:{\"limit\": 20, \"query\": \"a\", \"filters\": {\"x\": 1, \"y\": {\"b\": 2, \"a\": 1}}}" -> "26698624d88a3724"
      [] key_content = "vector:{\"limit\": 20, \"query\": \"a\", \"filters\": {\"y\": {\"a\": 1, \"b\": 2}, \"x\": 1}}" -> "7af57b485863cf7a"
      [] key_content = "vector:{\"limit\": 20, \"query\": \"a\", \"filters\": {\"y\": {\"b\": 2, \"a\": 1}, \"x\": 1}}" -> "2fae4e39025e23d8"
      [] key_content = "vector:{\"query\": \"a\", \"filters\": {\"x\": 1, \"y\": 2}}" -> "fa2102f143aa0b76"
      [] key_content = "vector:{\"query\": \"a\", \"filters\": {\"x\": 1, \"y\": {\"a\": 1, \"b\": 2}}, \"limit\": 20}" -> "395e9d47f1fddd3b"
      [] key_content = "vector:{\"query\": \"a\", \"filters\": {\"x\": 1, \"y\": {\"b\": 2, \"a\": 1}}, \"limit\": 20}" -> "04bd8189526e6619"
      [] key_content = "vector:{\"query\": \"a\", \"filters\": {\"x\": 2, \"y\": 1}}" -> "bc3c682ca9028029"
      [] key_content = "vector:{\"query\": \"a\", \"filters\": {\"y\": 1, \"x\": 2}}" -> "8d36ec1ab6a16127"
      [] key_content = "vector:{\"query\": \"a\", \"filters\": {\"y\": 2, \"x\": 1}}" -> "d86792fda165915c"
      [] key_content = "vector:{\"query\": \"a\", \"filters\": {\"y\": {\"a\": 1, \"b\": 2}, \"x\": 1}, \"limit\": 20}" -> "8f275d8f4020b536"
      [] key_content = "vector:{\"query\": \"a\", \"filters\": {\"y\": {\"b\": 2, \"a\": 1}, \"x\": 1}, \"limit\": 20}" -> "5f631ffb975bf6f6"
      [] key_content = "vector:{\"query\": \"a\", \"limit\": 20, \"filters\": {\"x\": 1, \"y\": {\"a\": 1, \"b\": 2}}}" -> "1035ef4bc35f9c27"
      [] key_content = "vector:{\"query\": \"a\", \"limit\": 20, \"filters\": {\"x\": 1, \"y\": {\"b\": 2, \"a\": 1}}}" -> "f5aa1fc272eb1007"
      [] key_content = "vector:{\"query\": \"a\", \"limit\": 20, \"filters\": {\"y\": {\"a\": 1, \"b\": 2}, \"x\": 1}}" -> "873f5a0a9a349433"
      [] key_content = "vector:{\"query\": \"a\", \"limit\": 20, \"filters\": {\"y\": {\"b\": 2, \"a\": 1}, \"x\": 1}}" -> "2bb41180b2a84f73"
      [] key_content = "vector:{\"query\": \"b\", \"context\": [{\"x\": 1, \"y\": null}, \"a\"]}" -> "fa1355496a615510"
      [] key_content = "vector:{\"query\": \"b\", \"context\": [{\"y\": null, \"x\": 1}, \"a\"]}" -> "e8903569e58585ab"
      [] key_content = "vector:{\"query\": \"b\", \"limit\": 10}" -> "17698a82412ef3bd"
      [] key_content = "vector:{\"query\": \"q1\", \"limit\": 10}" -> "14808783c63ca98e"
      [] key_content = "vector:{\"text\": \"t1\"}" -> "1e03627202621018"
      [] key_content = "search:{\"filters\": {\"x\": \"{1}\"}, \"limit\": 20, \"query\": \"q1\"}" -> "840939109aa64567"
      [] key_content = "search:{\"query\": \"q1\", \"filters\": {\"x\": \"{1}\"}, \"limit\": 20}" -> "8b9b3c634d0e441f"
      [] key_content = "integrated:{\"context\": null, \"query\": \"q1\"}" -> "a687d36a39d4b81f"
      [] key_content = "integrated:{\"query\": \"q1\", \"context\": null}" -> "d6a2a412949fe189"
      [] key_content = "search:{\"filters\": null, \"limit\": 20, \"query\": \"q1\"}" -> "ba777d85b64d3466"
      [] key_content = "search:{\"filters\": null, \"limit\": 20, \"query\": \"q2\"}" -> "1691366ae77d5f9d"
      [] key_content = "search:{\"filters\": null, \"limit\": 20, \"query\": \"q3\"}" -> "39af84d36291c1e7"
      [] key_content = "search:{\"query\": \"q1\", \"filters\": null, \"limit\": 20}" -> "5cc035071e395efb"
      [] key_content = "search:{\"query\": \"q2\", \"filters\": null, \"limit\": 20}" -> "dbd8119332eb583b"
      [] key_content = "search:{\"query\": \"q3\", \"filters\": null, \"limit\": 20}" -> "b8b737a9d0d810a1"

\* CacheService._generate_cache_key
generate_cache_key(operation, params) ==
    LET sorted_params == json_dumps(params)
        key_content == operation \o ":" \o sorted_params
        key_hash == md5_hexdigest_16(key_content)
    IN operation \o ":" \o key_hash

\* ----------------------------------------------------------- CacheService
\* The four categories; max_size is scaled down from the 500, 200, 300 and
\* 100 of CacheService.__init__ to 2, 1, 1 and 1.
CacheService ==
    [search_cache |-> LRUCache(2),
     embedding_cache |-> LRUCache(1),
     vector_cache |-> LRUCache(1),
     integrated_cache |-> LRUCache(1)]

\* The fields of CacheService that hold an LRUCache.
Categories == {"search_cache", "embedding_cache", "vector_cache", "integrated_cache"}

default_ttl == [search |-> 300, embedding |-> 3600, vector |-> 600, integrated |-> 300]

\* ttl_seconds or self.default_ttl[category]; ttl_seconds is PyNone or a PyInt
ttl_or_default(ttl_seconds, category) == Or(ttl_seconds, PyInt(default_ttl[category])).n

\* The params dict each accessor builds from its arguments.
search_params(query, filters, limit) ==
    PyDict(<<Item("query", PyStr(query)),
             Item("filters", Or(filters, PyDict(<<>>))),
             Item("limit", PyInt(limit))>>)

embedding_params(text) == PyDict(<<Item("text", PyStr(text))>>)

vector_params(query, limit) ==
    PyDict(<<Item("query", PyStr(query)), Item("limit", PyInt(limit))>>)

integrated_params(query, context) ==
    PyDict(<<Item("query", PyStr(query)),
             Item("context", Or(context, PyList(<<>>)))>>)

\* The keys of the parameter bags the accessors are called with most, derived
\* once: calls maps an operation and its params to _generate_cache_key's
\* result.
CacheKeys ==
    LET calls ==
          {<<"search", search_params(query, PyNone, 20)>> : query \in {"q1", "q2", "q3"}}
          \cup {<<"search", search_params("q1", PyDict(<<Item("x", PyObj("{1}"))>>), 20)>>,
                <<"embedding", embedding_params("t1")>>,
                <<"vector", vector_params("q1", 10)>>,
                <<"integrated", integrated_params("q1", PyNone)>>}
    IN [c \in calls |-> generate_cache_key(c[1], c[2])] @@ <<>>

\* self._generate_cache_key(operation, params)
cache_key_of(operation, params) ==
    IF <<operation, params>> \in DOMAIN CacheKeys THEN CacheKeys[<<operation, params>>]
    ELSE generate_cache_key(operation, params)

\* An accessor returns raised = TRUE, and touches no cache, when json.dumps
\* raises inside _generate_cache_key.
get_search_result(self, query, filters, limit, t) ==
    LET params == search_params(query, filters, limit) IN
    IF json_raises(params) THEN [self |-> self, ret |-> None, raised |-> TRUE]
    ELSE LET cache_key == cache_key_of("search", params)
             r == LRUCache_get(self.search_cache, cache_key, t)
         IN [self |-> [self EXCEPT !.search_cache = r.self], ret |-> r.ret, raised |-> FALSE]

set_search_result(self, query, filters, limit, result, ttl_seconds, t) ==
    LET params == search_params(query, filters, limit) IN
    IF json_raises(params) THEN [self |-> self, raised |-> TRUE]
    ELSE LET cache_key == cache_key_of("search", params)
             ttl == ttl_or_default(ttl_seconds, "search")
         IN [self |-> [self EXCEPT !.search_cache = LRUCache_set(@, cache_key, result, ttl, t).self],
             raised |-> FALSE]

get_embedding(self, text, t) ==
    LET params == embedding_params(text) IN
    IF json_raises(params) THEN [self |-> self, ret |-> None, raised |-> TRUE]
    ELSE LET cache_key == cache_key_of("embedding", params)
             r == LRUCache_get(self.embedding_cache, cache_key, t)
         IN [self |-> [self EXCEPT !.embedding_cache = r.self], ret |-> r.ret, raised |-> FALSE]

\* A variant of set_embedding: vector_cache is the object embedding_cache is,
\* what is stored in one is in the other.
set_embedding_aliased(self, text, embedding, ttl_seconds, t) ==
    LET params == embedding_params(text) IN
    IF json_raises(params) THEN [self |-> self, raised |-> TRUE]
    ELSE LET cache_key == cache_key_of("embedding", params)
             ttl == ttl_or_default(ttl_seconds, "embedding")
             stored == LRUCache_set(self.embedding_cache, cache_key, embedding, ttl, t).self
         IN [self |-> [self EXCEPT !.embedding_cache = stored, !.vector_cache = stored],
             raised |-> FALSE]

set_embedding(self, text, embedding, ttl_seconds, t) ==
    LET params == embedding_params(text) IN
    IF json_raises(params) THEN [self |-> self, raised |-> TRUE]
    ELSE LET cache_key == cache_key_of("embedding", params)
             ttl == ttl_or_default(ttl_seconds, "embedding")
         IN [self |-> [self EXCEPT !.embedding_cache = LRUCache_set(@, cache_key, embedding, ttl, t).self],
             raised |-> FALSE]

get_vector_result(self, query, limit, t) ==
    LET params == vector_params(query, limit) IN
    IF json_raises(params) THEN [self |-> self, ret |-> None, raised |-> TRUE]
    ELSE LET cache_key == cache_key_of("vector", params)
             r == LRUCache_get(self.vector_cache, cache_key, t)
         IN [self |-> [self EXCEPT !.vector_cache = r.self], ret |-> r.ret, raised |-> FALSE]

set_vector_result(self, query, limit, result, ttl_seconds, t) ==
    LET params == vector_params(query, limit) IN
    IF json_raises(params) THEN [self |-> self, raised |-> TRUE]
    ELSE LET cache_key == cache_key_of("vector", params)
             ttl == ttl_or_default(ttl_seconds, "vector")
         IN [self |-> [self EXCEPT !.vector_cache = LRUCache_set(@, cache_key, result, ttl, t).self],
             raised |-> FALSE]

get_integrated_result(self, query, context, t) ==
    LET params == integrated_params(query, context) IN
    IF json_raises(params) THEN [self |-> self, ret |-> None, raised |-> TRUE]
    ELSE LET cache_key == cache_key_of("integrated", params)
             r == LRUCache_get(self.integrated_cache, cache_key, t)
         IN [self |-> [self EXCEPT !.integrated_cache = r.self], ret |-> r.ret, raised |-> FALSE]

set_integrated_result(self, query, context, result, ttl_seconds, t) ==
    LET params == integrated_params(query, context) IN
    IF json_raises(params) THEN [self |-> self, raised |-> TRUE]
    ELSE LET cache_key == cache_key_of("integrated", params)
             ttl == ttl_or_default(ttl_seconds, "integrated")
         IN [self |-> [self EXCEPT !.integrated_cache = LRUCache_set(@, cache_key, result, ttl, t).self],
             raised |-> FALSE]

clear_all(self) ==
    [search_cache |-> LRUCache_clear(self.search_cache),
     embedding_cache |-> LRUCache_clear(self.embedding_cache),
     vector_cache |-> LRUCache_clear(self.vector_cache),
     integrated_cache |-> LRUCache_clear(self.integrated_cache)]

\* CacheService.get_stats, every read made at one instant
get_stats(self) ==
    [search_cache |-> LRUCache_get_stats(self.search_cache),
     embedding_cache |-> LRUCache_get_stats(self.embedding_cache),
     vector_cache |-> LRUCache_get_stats(self.vector_cache),
     integrated_cache |-> LRUCache_get_stats(self.integrated_cache),
     overall |->
        [total_cached_items |->
            Len(self.search_cache.cache) + Len(self.embedding_cache.cache)
            + Len(self.vector_cache.cache) + Len(self.integrated_cache.cache),
         total_hits |->
            self.search_cache.hits + self.embedding_cache.hits
            + self.vector_cache.hits + self.integrated_cache.hits,
         total_misses |->
            self.search_cache.misses + self.embedding_cache.misses
            + self.vector_cache.misses + self.integrated_cache.misses,
         total_evictions |->
            self.search_cache.evictions + self.embedding_cache.evictions
            + self.vector_cache.evictions + self.integrated_cache.evictions]]

\* cleanup_expired_async: cleanup_all, every category swept at one instant
cleanup_expired_async(self, t) ==
    LET search == LRUCache_cleanup_expired(self.search_cache, t)
        embedding == LRUCache_cleanup_expired(self.embedding_cache, t)
        vector == LRUCache_cleanup_expired(self.vector_cache, t)
        integrated == LRUCache_cleanup_expired(self.integrated_cache, t)
    IN [self |-> [search_cache |-> search.self,
                  embedding_cache |-> embedding.self,
                  vector_cache |-> vector.self,
                  integrated_cache |-> integrated.self],
        ret |-> [search |-> search.ret, embedding |-> embedding.ret,
                 vector |-> vector.ret, integrated |-> integrated.ret]]

\* --------------------------------------------------------- initial values
\* The last call on lru. ret: what get returned, or the key set evicted;
\* deleted: what delete returned; removed: what cleanup_expired returned;
\* stats: what get_stats returned; after: whether a get directly followed a
\* set of the same key or a clear, whether a set found its key present,
\* whether the entry a delete removed was expired.
NoCall ==
    [op |-> "init", key |-> None, value |-> None, ttl |-> 0, t |-> 0,
     ret |-> None, deleted |-> FALSE, removed |-> 0,
     stats |-> LRUCache_get_stats(LRUCache(0)), after |-> "other"]

\* The last call on service. query: the query of a get_search_result; ret:
\* what it returned; raised: whether it raised; stats: what get_stats
\* returned; removed: what cleanup_expired_async returned.
NoPoolCall ==
    [op |-> "init", query |-> None, ret |-> None, raised |-> FALSE,
     stats |-> get_stats(CacheService),
     removed |-> [search |-> 0, embedding |-> 0, vector |-> 0, integrated |-> 0]]

NoSets == [log |-> <<>>, read |-> FALSE]

\* The threads of SpecConc and what each starts from.
Threads == {"t1", "t2"}
ConcKeys == {"k1", "k2"}
ConcValues == {"v1"}
ConcTTLs == {0}

\* The calls one thread makes.
MaxCalls == MaxCount + 1

NoReturn ==
    [value |-> None, deleted |-> FALSE, removed |-> 0,
     stats |-> LRUCache_get_stats(LRUCache(0))]

\* A call: the method and its arguments (None, 0: the method takes none).
Call(op, key, value, ttl_seconds) ==
    [op |-> op, key |-> key, value |-> value, ttl_seconds |-> ttl_seconds]

Calls ==
    {Call("get", key, None, 0) : key \in ConcKeys}
    \cup {Call("set", key, value, ttl_seconds) :
            key \in ConcKeys, value \in ConcValues, ttl_seconds \in ConcTTLs}
    \cup {Call("delete", key, None, 0) : key \in ConcKeys}
    \cup {Call("clear", None, None, 0), Call("get_stats", None, None, 0),
          Call("cleanup_expired", None, None, 0)}

\* pc: where the thread is; call: the call it makes; tmp: the counter value
\* an augmented assignment has read; expired_keys: the local of
\* cleanup_expired; ret: what the last call returned; lin: what the call
\* returns in the serial execution; calls: the calls the thread has made.
NoThread ==
    [pc |-> "idle", call |-> Call("none", None, None, 0), tmp |-> 0,
     expired_keys |-> {}, ret |-> NoReturn, lin |-> NoReturn, calls |-> 0]

\* The serial execution: the cache after the calls so far, each run as one
\* step when it took the lock; the get and the clear calls among them;
\* overlap, whether a call was invoked while another held the lock.
NoSerial == [cache |-> LRUCache(1), gets |-> 0, clears |-> 0, overlap |-> FALSE]

\* SpecShare. lock: the thread holding each cache's lock; op, step: the call
\* thread t1 is in and how many of its steps it has run (what the call has
\* built so far is in call.stats and call.removed); returned: the call t1 last
\* returned from; calls: the calls each thread has made; clearing: the caches
\* t2's clear_all has cleared; accessed, during: the cache t2's last accessor
\* call used and the cache t1 was sweeping at that moment.
NoCallers ==
    [lock |-> [c \in Categories |-> None],
     op |-> "none", step |-> 0,
     returned |-> "none",
     calls |-> [t1 |-> 0, t2 |-> 0],
     clearing |-> 0,
     accessed |-> None, during |-> None]

\* A specification leaves the variables of the others unset.
NoLRU == lru = None /\ last = None /\ recent = None
NoKey == kd_operation = None /\ kd_params = None /\ kd_key = None
NoPool == service = None /\ call = None /\ sets = None
NoConc == shared = None /\ lock = None /\ thread = None /\ serial = None
NoShare == callers = None
NoGlobal == global = None

\* ------------------------------------- the sequential specification, Spec
\* One LRUCache; every call runs from its `with self.lock` to its return as
\* one step, and the clock advances between calls.
WithinCount(self) ==
    self.hits + self.misses <= MaxCount /\ self.evictions <= MaxCount

\* recent after a call: the keys the call removed leave it, the key the call
\* accessed (accessed = None: no key) becomes its last.
Accessed(cache, accessed) ==
    LET kept == SelectSeq(recent, LAMBDA k : k \in KeysOf(cache) /\ k # accessed)
    IN IF accessed = None THEN kept ELSE Append(kept, accessed)

Init ==
    /\ lru \in {LRUCache(m) : m \in 1..MaxSize}
    /\ now = 0
    /\ last = NoCall
    /\ recent = <<>>
    /\ NoKey /\ NoPool /\ NoConc /\ NoShare /\ NoGlobal

Get(key) ==
    /\ LET r == LRUCache_get(lru, key, now) IN
       /\ WithinCount(r.self)
       /\ lru' = r.self
       /\ last' = [NoCall EXCEPT !.op = "get", !.key = key, !.ret = r.ret,
                      !.after = IF last.op = "set" /\ last.key = key THEN "set"
                                ELSE IF last.op = "clear" THEN "clear" ELSE "other"]
       /\ recent' = Accessed(r.self.cache,
                             IF r.self.hits > lru.hits THEN key ELSE None)
    /\ UNCHANGED <<now, keyVars, shareVars, globalVars, poolVars, concVars>>

Set(key, value, ttl_seconds) ==
    /\ LET r == LRUCache_set(lru, key, value, ttl_seconds, now) IN
       /\ WithinCount(r.self)
       /\ lru' = r.self
       /\ last' = [NoCall EXCEPT !.op = "set", !.key = key, !.value = value,
                      !.ttl = ttl_seconds, !.t = now, !.ret = r.evicted,
                      !.after = IF Contains(lru.cache, key) THEN "overwrite"
                                ELSE IF r.evicted # None
                                        /\ ~is_expired(Lookup(lru.cache, r.evicted), now)
                                     THEN "live" ELSE "other"]
       /\ recent' = Accessed(r.self.cache, key)
    /\ UNCHANGED <<now, keyVars, shareVars, globalVars, poolVars, concVars>>

Delete(key) ==
    /\ LET r == LRUCache_delete(lru, key) IN
       /\ lru' = r.self
       /\ last' = [NoCall EXCEPT !.op = "delete", !.key = key, !.deleted = r.ret,
                      !.after = IF Contains(lru.cache, key)
                                   /\ is_expired(Lookup(lru.cache, key), now)
                                THEN "expired" ELSE "other"]
       /\ recent' = Accessed(r.self.cache, None)
    /\ UNCHANGED <<now, keyVars, shareVars, globalVars, poolVars, concVars>>

Clear ==
    /\ lru' = LRUCache_clear(lru)
    /\ last' = [NoCall EXCEPT !.op = "clear"]
    /\ recent' = <<>>
    /\ UNCHANGED <<now, keyVars, shareVars, globalVars, poolVars, concVars>>

GetStats ==
    /\ last' = [NoCall EXCEPT !.op = "get_stats", !.stats = LRUCache_get_stats(lru)]
    /\ UNCHANGED <<lru, now, recent, keyVars, shareVars, globalVars, poolVars, concVars>>

CleanupExpired ==
    /\ LET r == LRUCache_cleanup_expired(lru, now) IN
       /\ lru' = r.self
       /\ last' = [NoCall EXCEPT !.op = "cleanup_expired", !.removed = r.ret]
       /\ recent' = Accessed(r.self.cache, None)
    /\ UNCHANGED <<now, keyVars, shareVars, globalVars, poolVars, concVars>>

Tick ==
    /\ now < MaxTime
    /\ now' = now + 1
    /\ UNCHANGED <<lruVars, keyVars, shareVars, globalVars, poolVars, concVars>>

Next ==
    \/ \E key \in Keys : Get(key)
    \/ \E key \in Keys, value \in Values, ttl_seconds \in TTLs : Set(key, value, ttl_seconds)
    \/ \E key \in Keys : Delete(key)
    \/ Clear
    \/ GetStats
    \/ CleanupExpired
    \/ Tick

Spec == Init /\ [][Next]_vars

\* ------------------------------- the counters of one LRUCache, SpecStats
\* One LRUCache at one instant: sets of one value, gets, deletes and get_stats,
\* until MaxRequests gets have been counted.
InitStats ==
    /\ lru \in {LRUCache(m) : m \in 1..MaxSize}
    /\ now = 0
    /\ last = NoCall
    /\ recent = <<>>
    /\ NoKey /\ NoPool /\ NoConc /\ NoShare /\ NoGlobal

StatsGet(key) ==
    /\ LET r == LRUCache_get(lru, key, now) IN
       /\ r.self.hits + r.self.misses <= MaxRequests
       /\ lru' = r.self
       /\ last' = [NoCall EXCEPT !.op = "get", !.key = key, !.ret = r.ret]
    /\ UNCHANGED <<now, recent, keyVars, shareVars, globalVars, poolVars, concVars>>

StatsSet(key) ==
    /\ LET r == LRUCache_set(lru, key, "v1", 1, now) IN
       /\ r.self.evictions <= MaxCount
       /\ lru' = r.self
       /\ last' = [NoCall EXCEPT !.op = "set", !.key = key, !.value = "v1", !.ttl = 1]
    /\ UNCHANGED <<now, recent, keyVars, shareVars, globalVars, poolVars, concVars>>

StatsDelete(key) ==
    /\ LET r == LRUCache_delete(lru, key) IN
       /\ lru' = r.self
       /\ last' = [NoCall EXCEPT !.op = "delete", !.key = key, !.deleted = r.ret]
    /\ UNCHANGED <<now, recent, keyVars, shareVars, globalVars, poolVars, concVars>>

NextStats ==
    \/ \E key \in Keys : StatsGet(key)
    \/ \E key \in Keys : StatsSet(key)
    \/ \E key \in Keys : StatsDelete(key)
    \/ GetStats

SpecStats == InitStats /\ [][NextStats]_vars

\* ------------------------------------------ the facade, SpecPool
\* One CacheService, driven through its search accessors and its pool-wide
\* calls; every call is one step and all calls are made at one reading of
\* the clock. An entry stored with a negative ttl_seconds is expired from the
\* moment it is stored.
Queries == {"q1", "q2", "q3"}
Filters == {PyNone, PyDict(<<>>)}
Limits == {20}
Results == {"r1", "r2"}
TTLOverrides == {PyNone, PyInt(0), PyInt(-1)}

\* The requests and the evictions of the whole pool are capped.
PoolWithinCount(self) ==
    /\ self.search_cache.hits + self.search_cache.misses
         + self.embedding_cache.hits + self.embedding_cache.misses
         + self.vector_cache.hits + self.vector_cache.misses
         + self.integrated_cache.hits + self.integrated_cache.misses <= MaxCount
    /\ self.search_cache.evictions + self.embedding_cache.evictions
         + self.vector_cache.evictions + self.integrated_cache.evictions <= MaxCount

InitPool ==
    /\ service = CacheService
    /\ call = NoPoolCall
    /\ sets = NoSets
    /\ now = 0
    /\ NoLRU /\ NoKey /\ NoConc /\ NoShare /\ NoGlobal

\* The log after one more set_search_result: the latest calls made since the
\* last call of another kind, for pairwise distinct queries, at most
\* max_size + 1 of them.
Logged(entry) ==
    LET old == IF sets.read THEN <<>> ELSE sets.log
        same == {i \in 1..Len(old) : old[i].query = entry.query}
        first == IF same # {} THEN (CHOOSE i \in same : TRUE) + 1
                 ELSE IF Len(old) > service.search_cache.max_size THEN 2 ELSE 1
    IN [log |-> Append(SubSeq(old, first, Len(old)), entry), read |-> FALSE]

GetSearchResult(query, filters, limit) ==
    /\ LET r == get_search_result(service, query, filters, limit, now) IN
       /\ PoolWithinCount(r.self)
       /\ service' = r.self
       /\ call' = [NoPoolCall EXCEPT !.op = "get_search_result", !.query = query,
                                     !.ret = r.ret, !.raised = r.raised]
       /\ sets' = IF r.raised THEN sets ELSE [sets EXCEPT !.read = TRUE]
    /\ UNCHANGED <<now, lruVars, keyVars, shareVars, globalVars, concVars>>

SetSearchResult(query, filters, limit, result, ttl_seconds) ==
    /\ LET r == set_search_result(service, query, filters, limit, result, ttl_seconds, now) IN
       /\ PoolWithinCount(r.self)
       /\ service' = r.self
       /\ call' = [NoPoolCall EXCEPT !.op = "set_search_result", !.raised = r.raised]
       /\ sets' = IF r.raised THEN sets
                  ELSE Logged([query |-> query, result |-> result,
                               ttl |-> ttl_or_default(ttl_seconds, "search"), t |-> now])
    /\ UNCHANGED <<now, lruVars, keyVars, shareVars, globalVars, concVars>>

ClearAll ==
    /\ service' = clear_all(service)
    /\ call' = [NoPoolCall EXCEPT !.op = "clear_all"]
    /\ sets' = NoSets
    /\ UNCHANGED <<now, lruVars, keyVars, shareVars, globalVars, concVars>>

PoolGetStats ==
    /\ call' = [NoPoolCall EXCEPT !.op = "get_stats", !.stats = get_stats(service)]
    /\ UNCHANGED <<service, now, sets, lruVars, keyVars, shareVars, globalVars, concVars>>

CleanupExpiredAsync ==
    /\ LET r == cleanup_expired_async(service, now) IN
       /\ service' = r.self
       /\ call' = [NoPoolCall EXCEPT !.op = "cleanup_expired_async", !.removed = r.ret]
    /\ sets' = NoSets
    /\ UNCHANGED <<now, lruVars, keyVars, shareVars, globalVars, concVars>>

NextPool ==
    \/ \E query \in Queries, filters \in Filters, limit \in Limits :
          GetSearchResult(query, filters, limit)
    \/ \E query \in Queries, filters \in Filters, limit \in Limits,
          result \in Results, ttl_seconds \in TTLOverrides :
          SetSearchResult(query, filters, limit, result, ttl_seconds)
    \/ ClearAll
    \/ PoolGetStats
    \/ CleanupExpiredAsync

SpecPool == InitPool /\ [][NextPool]_vars

\* --------------------------------- the facade and its parameters, SpecParams
\* The search accessors called with filters of every kind: absent, empty,
\* holding an object json has no encoding for (the set {1}), and keyed by a
\* tuple.
ParamQueries == {"q1"}
ParamFilters ==
    {PyNone, PyDict(<<>>),
     PyDict(<<Item("x", PyObj("{1}"))>>),
     PyDict(<<Item("(1, 2)", PyInt(1))>>)}

NextParams ==
    \/ \E query \in ParamQueries, filters \in ParamFilters, limit \in Limits :
          GetSearchResult(query, filters, limit)
    \/ \E query \in ParamQueries, filters \in ParamFilters, limit \in Limits,
          result \in Results, ttl_seconds \in TTLOverrides :
          SetSearchResult(query, filters, limit, result, ttl_seconds)
    \/ ClearAll
    \/ CleanupExpiredAsync

SpecParams == InitPool /\ [][NextParams]_vars

\* ------------------------------------- the facade, every category, SpecAccess
\* The accessors of the four categories and the pool-wide calls, each
\* category called for one key; all calls are made at one reading of the
\* clock.
AccessQueries == {"q1"}
AccessFilters == {PyNone, PyDict(<<>>)}
AccessResults == {"r1"}
Texts == {"t1"}
Embeddings == {"v1"}
VectorQueries == {"q1"}
VectorLimits == {10}
VectorResults == {"v1"}
IntegratedQueries == {"q1"}
Contexts == {PyNone, PyList(<<>>)}
IntegratedResults == {"v1"}
AccessTTLs == {PyNone, PyInt(0), PyInt(1), PyInt(-1)}
OtherTTLs == {PyNone, PyInt(0), PyInt(-1)}

GetEmbedding(text) ==
    /\ LET r == get_embedding(service, text, now) IN
       /\ PoolWithinCount(r.self)
       /\ service' = r.self
       /\ call' = [NoPoolCall EXCEPT !.op = "get_embedding", !.query = text,
                                     !.ret = r.ret, !.raised = r.raised]
    /\ UNCHANGED <<now, sets, lruVars, keyVars, shareVars, globalVars, concVars>>

SetEmbedding(text, embedding, ttl_seconds) ==
    /\ LET r == set_embedding(service, text, embedding, ttl_seconds, now) IN
       /\ PoolWithinCount(r.self)
       /\ service' = r.self
       /\ call' = [NoPoolCall EXCEPT !.op = "set_embedding", !.raised = r.raised]
    /\ UNCHANGED <<now, sets, lruVars, keyVars, shareVars, globalVars, concVars>>

GetVectorResult(query, limit) ==
    /\ LET r == get_vector_result(service, query, limit, now) IN
       /\ PoolWithinCount(r.self)
       /\ service' = r.self
       /\ call' = [NoPoolCall EXCEPT !.op = "get_vector_result", !.query = query,
                                     !.ret = r.ret, !.raised = r.raised]
    /\ UNCHANGED <<now, sets, lruVars, keyVars, shareVars, globalVars, concVars>>

SetVectorResult(query, limit, result, ttl_seconds) ==
    /\ LET r == set_vector_result(service, query, limit, result, ttl_seconds, now) IN
       /\ PoolWithinCount(r.self)
       /\ service' = r.self
       /\ call' = [NoPoolCall EXCEPT !.op = "set_vector_result", !.raised = r.raised]
    /\ UNCHANGED <<now, sets, lruVars, keyVars, shareVars, globalVars, concVars>>

GetIntegratedResult(query, context) ==
    /\ LET r == get_integrated_result(service, query, context, now) IN
       /\ PoolWithinCount(r.self)
       /\ service' = r.self
       /\ call' = [NoPoolCall EXCEPT !.op = "get_integrated_result", !.query = query,
                                     !.ret = r.ret, !.raised = r.raised]
    /\ UNCHANGED <<now, sets, lruVars, keyVars, shareVars, globalVars, concVars>>

SetIntegratedResult(query, context, result, ttl_seconds) ==
    /\ LET r == set_integrated_result(service, query, context, result, ttl_seconds, now) IN
       /\ PoolWithinCount(r.self)
       /\ service' = r.self
       /\ call' = [NoPoolCall EXCEPT !.op = "set_integrated_result", !.raised = r.raised]
    /\ UNCHANGED <<now, sets, lruVars, keyVars, shareVars, globalVars, concVars>>

NextAccess ==
    \/ \E query \in AccessQueries, filters \in AccessFilters, limit \in Limits :
          GetSearchResult(query, filters, limit)
    \/ \E query \in AccessQueries, filters \in AccessFilters, limit \in Limits,
          result \in AccessResults, ttl_seconds \in AccessTTLs :
          SetSearchResult(query, filters, limit, result, ttl_seconds)
    \/ \E text \in Texts : GetEmbedding(text)
    \/ \E text \in Texts, embedding \in Embeddings, ttl_seconds \in OtherTTLs :
          SetEmbedding(text, embedding, ttl_seconds)
    \/ \E query \in VectorQueries, limit \in VectorLimits : GetVectorResult(query, limit)
    \/ \E query \in VectorQueries, limit \in VectorLimits,
          result \in VectorResults, ttl_seconds \in OtherTTLs :
          SetVectorResult(query, limit, result, ttl_seconds)
    \/ \E query \in IntegratedQueries, context \in Contexts :
          GetIntegratedResult(query, context)
    \/ \E query \in IntegratedQueries, context \in Contexts,
          result \in IntegratedResults, ttl_seconds \in OtherTTLs :
          SetIntegratedResult(query, context, result, ttl_seconds)
    \/ ClearAll
    \/ PoolGetStats
    \/ CleanupExpiredAsync

SpecAccess == InitPool /\ [][NextAccess]_vars

\* ------------------------------------ the concurrent specification, SpecConc
\* Threads calling the methods of one LRUCache. A call is invoked, waits at
\* `with self.lock`, runs its body statement by statement (an augmented
\* assignment `+=` is a read, then a write) and releases the lock as it
\* returns. The clock is read once per call: it advances only between calls.
InitConc ==
    /\ shared = LRUCache(1)
    /\ lock = None
    /\ thread = [t \in Threads |-> NoThread]
    /\ serial = NoSerial
    /\ now = 0
    /\ NoLRU /\ NoKey /\ NoPool /\ NoShare /\ NoGlobal

\* A variant of with_lock: the body is entered whoever holds the lock.
with_lock_ignored(holder) == TRUE

\* with self.lock: the body is entered once no thread holds the lock
with_lock(holder) == holder = None

\* The call c run as one step on the cache self at clock reading t.
Serial(self, c, t) ==
    CASE c.op = "get" ->
            LET r == LRUCache_get(self, c.key, t)
            IN [self |-> r.self, ret |-> [NoReturn EXCEPT !.value = r.ret]]
      [] c.op = "set" ->
            [self |-> LRUCache_set(self, c.key, c.value, c.ttl_seconds, t).self,
             ret |-> NoReturn]
      [] c.op = "delete" ->
            LET r == LRUCache_delete(self, c.key)
            IN [self |-> r.self, ret |-> [NoReturn EXCEPT !.deleted = r.ret]]
      [] c.op = "clear" -> [self |-> LRUCache_clear(self), ret |-> NoReturn]
      [] c.op = "get_stats" ->
            [self |-> self, ret |-> [NoReturn EXCEPT !.stats = LRUCache_get_stats(self)]]
      [] c.op = "cleanup_expired" ->
            LET r == LRUCache_cleanup_expired(self, t)
            IN [self |-> r.self, ret |-> [NoReturn EXCEPT !.removed = r.ret]]

\* thread after t returned ret and left the `with` block
Returned(t, ret) ==
    [thread EXCEPT ![t] = [NoThread EXCEPT !.ret = ret, !.lin = thread[t].lin,
                                          !.calls = thread[t].calls + 1]]

Invoke(t, c) ==
    /\ thread[t].pc = "idle"
    /\ thread[t].calls < MaxCalls
    /\ thread' = [thread EXCEPT ![t] = [NoThread EXCEPT !.pc = "invoked", !.call = c,
                                                       !.calls = thread[t].calls]]
    /\ serial' = [serial EXCEPT !.overlap = @ \/ lock # None]
    /\ UNCHANGED <<shared, lock, now, lruVars, keyVars, shareVars, globalVars, poolVars>>

Acquire(t) ==
    /\ thread[t].pc = "invoked"
    /\ with_lock(lock)
    /\ lock' = t
    /\ LET r == Serial(serial.cache, thread[t].call, now) IN
       /\ serial' = [cache |-> r.self,
                     gets |-> serial.gets + IF thread[t].call.op = "get" THEN 1 ELSE 0,
                     clears |-> serial.clears + IF thread[t].call.op = "clear" THEN 1 ELSE 0,
                     overlap |-> serial.overlap]
       /\ thread' = [thread EXCEPT ![t].pc = thread[t].call.op, ![t].lin = r.ret]
    /\ UNCHANGED <<shared, now, lruVars, keyVars, shareVars, globalVars, poolVars>>

\* get: `if key not in self.cache`, `if entry.is_expired()`, move_to_end
GetLookup(t) ==
    /\ thread[t].pc = "get"
    /\ LET key == thread[t].call.key IN
       IF ~Contains(shared.cache, key)
       THEN /\ thread' = [thread EXCEPT ![t].pc = "get_misses", ![t].tmp = shared.misses]
            /\ UNCHANGED shared
       ELSE LET entry == Lookup(shared.cache, key) IN
            IF is_expired(entry, now)
            THEN /\ shared' = [shared EXCEPT !.cache = DelKey(@, key)]
                 /\ thread' = [thread EXCEPT ![t].pc = "get_evictions",
                                             ![t].tmp = shared.evictions]
            ELSE /\ shared' = [shared EXCEPT !.cache = move_to_end(@, key)]
                 /\ thread' = [thread EXCEPT ![t].pc = "get_hits", ![t].tmp = shared.hits,
                                             ![t].ret = [NoReturn EXCEPT !.value = entry.value]]
    /\ UNCHANGED <<lock, serial, now, lruVars, keyVars, shareVars, globalVars, poolVars>>

\* get, expired entry: self.evictions += 1, then self.misses is read
GetCountEviction(t) ==
    /\ thread[t].pc = "get_evictions"
    /\ shared' = [shared EXCEPT !.evictions = thread[t].tmp + 1]
    /\ thread' = [thread EXCEPT ![t].pc = "get_misses", ![t].tmp = shared.misses]
    /\ UNCHANGED <<lock, serial, now, lruVars, keyVars, shareVars, globalVars, poolVars>>

\* A variant of GetCountMiss: the miss returns without leaving the `with`
\* block, the lock stays taken.
GetCountMiss_keeps_lock(t) ==
    /\ thread[t].pc = "get_misses"
    /\ shared' = [shared EXCEPT !.misses = thread[t].tmp + 1]
    /\ thread' = Returned(t, NoReturn)
    /\ UNCHANGED <<lock, serial, now, lruVars, keyVars, shareVars, globalVars, poolVars>>

\* get: self.misses += 1; return None
GetCountMiss(t) ==
    /\ thread[t].pc = "get_misses"
    /\ shared' = [shared EXCEPT !.misses = thread[t].tmp + 1]
    /\ thread' = Returned(t, NoReturn)
    /\ lock' = None
    /\ UNCHANGED <<serial, now, lruVars, keyVars, shareVars, globalVars, poolVars>>

\* get: self.hits += 1; return entry.value
GetCountHit(t) ==
    /\ thread[t].pc = "get_hits"
    /\ shared' = [shared EXCEPT !.hits = thread[t].tmp + 1]
    /\ thread' = Returned(t, thread[t].ret)
    /\ lock' = None
    /\ UNCHANGED <<serial, now, lruVars, keyVars, shareVars, globalVars, poolVars>>

\* A variant of SetInsert: the lock is released once the entry is inserted.
SetInsert_releases(t) ==
    /\ thread[t].pc = "set"
    /\ LET c == thread[t].call
       IN shared' = [shared EXCEPT !.cache =
                        Append(DelKey(shared.cache, c.key),
                               [key |-> c.key,
                                entry |-> CacheEntry(c.value, c.ttl_seconds, now)])]
    /\ thread' = [thread EXCEPT ![t].pc = "set_len"]
    /\ lock' = None
    /\ UNCHANGED <<serial, now, lruVars, keyVars, shareVars, globalVars, poolVars>>

\* set: `if key in self.cache: del self.cache[key]`, then the new entry
SetInsert(t) ==
    /\ thread[t].pc = "set"
    /\ LET c == thread[t].call
           removed == IF Contains(shared.cache, c.key) THEN DelKey(shared.cache, c.key)
                      ELSE shared.cache
       IN shared' = [shared EXCEPT !.cache =
                        Append(removed, [key |-> c.key,
                                         entry |-> CacheEntry(c.value, c.ttl_seconds, now)])]
    /\ thread' = [thread EXCEPT ![t].pc = "set_len"]
    /\ UNCHANGED <<lock, serial, now, lruVars, keyVars, shareVars, globalVars, poolVars>>

\* set: `if len(self.cache) > self.max_size`, popitem(last=False)
SetEvict(t) ==
    /\ thread[t].pc = "set_len"
    /\ IF Len(shared.cache) > shared.max_size
       THEN /\ shared' = [shared EXCEPT !.cache = popitem_first(@)]
            /\ thread' = [thread EXCEPT ![t].pc = "set_evictions",
                                        ![t].tmp = shared.evictions]
            /\ UNCHANGED lock
       ELSE /\ thread' = Returned(t, NoReturn)
            /\ lock' = None
            /\ UNCHANGED shared
    /\ UNCHANGED <<serial, now, lruVars, keyVars, shareVars, globalVars, poolVars>>

\* set: self.evictions += 1
SetCountEviction(t) ==
    /\ thread[t].pc = "set_evictions"
    /\ shared' = [shared EXCEPT !.evictions = thread[t].tmp + 1]
    /\ thread' = Returned(t, NoReturn)
    /\ lock' = None
    /\ UNCHANGED <<serial, now, lruVars, keyVars, shareVars, globalVars, poolVars>>

DeleteEntry(t) ==
    /\ thread[t].pc = "delete"
    /\ LET key == thread[t].call.key IN
       IF Contains(shared.cache, key)
       THEN /\ shared' = [shared EXCEPT !.cache = DelKey(@, key)]
            /\ thread' = Returned(t, [NoReturn EXCEPT !.deleted = TRUE])
       ELSE /\ thread' = Returned(t, NoReturn)
            /\ UNCHANGED shared
    /\ lock' = None
    /\ UNCHANGED <<serial, now, lruVars, keyVars, shareVars, globalVars, poolVars>>

\* clear: self.cache.clear()
ClearEntries(t) ==
    /\ thread[t].pc = "clear"
    /\ shared' = [shared EXCEPT !.cache = <<>>]
    /\ thread' = [thread EXCEPT ![t].pc = "clear_counters"]
    /\ UNCHANGED <<lock, serial, now, lruVars, keyVars, shareVars, globalVars, poolVars>>

\* clear: self.hits = 0; self.misses = 0; self.evictions = 0
ClearCounters(t) ==
    /\ thread[t].pc = "clear_counters"
    /\ shared' = [shared EXCEPT !.hits = 0, !.misses = 0, !.evictions = 0]
    /\ thread' = Returned(t, NoReturn)
    /\ lock' = None
    /\ UNCHANGED <<serial, now, lruVars, keyVars, shareVars, globalVars, poolVars>>

ReadStats(t) ==
    /\ thread[t].pc = "get_stats"
    /\ thread' = Returned(t, [NoReturn EXCEPT !.stats = LRUCache_get_stats(shared)])
    /\ lock' = None
    /\ UNCHANGED <<shared, serial, now, lruVars, keyVars, shareVars, globalVars, poolVars>>

\* cleanup_expired: the list expired_keys is built
CleanupScan(t) ==
    /\ thread[t].pc = "cleanup_expired"
    /\ thread' = [thread EXCEPT ![t].pc = "cleanup_delete",
                    ![t].expired_keys =
                        {k \in KeysOf(shared.cache) : is_expired(Lookup(shared.cache, k), now)}]
    /\ UNCHANGED <<shared, lock, serial, now, lruVars, keyVars, shareVars, globalVars, poolVars>>

\* cleanup_expired: `del self.cache[key]` for each key; return their number
CleanupDelete(t) ==
    /\ thread[t].pc = "cleanup_delete"
    /\ shared' = [shared EXCEPT !.cache =
                     SelectSeq(@, LAMBDA e : e.key \notin thread[t].expired_keys)]
    /\ thread' = Returned(t, [NoReturn EXCEPT
                                !.removed = Cardinality(thread[t].expired_keys)])
    /\ lock' = None
    /\ UNCHANGED <<serial, now, lruVars, keyVars, shareVars, globalVars, poolVars>>

ConcTick ==
    /\ \A t \in Threads : thread[t].pc = "idle"
    /\ now < MaxTime
    /\ now' = now + 1
    /\ UNCHANGED <<concVars, lruVars, keyVars, shareVars, globalVars, poolVars>>

NextConc ==
    \/ \E t \in Threads, c \in Calls : Invoke(t, c)
    \/ \E t \in Threads : Acquire(t)
    \/ \E t \in Threads : GetLookup(t)
    \/ \E t \in Threads : GetCountEviction(t)
    \/ \E t \in Threads : GetCountMiss(t)
    \/ \E t \in Threads : GetCountHit(t)
    \/ \E t \in Threads : SetInsert(t)
    \/ \E t \in Threads : SetEvict(t)
    \/ \E t \in Threads : SetCountEviction(t)
    \/ \E t \in Threads : DeleteEntry(t)
    \/ \E t \in Threads : ClearEntries(t)
    \/ \E t \in Threads : ClearCounters(t)
    \/ \E t \in Threads : ReadStats(t)
    \/ \E t \in Threads : CleanupScan(t)
    \/ \E t \in Threads : CleanupDelete(t)
    \/ ConcTick

SpecConc == InitConc /\ [][NextConc]_vars

\* The statements of the call thread t is in: a thread that can run its next
\* statement, the `with self.lock` of a free lock included, is scheduled in
\* the end. No thread has to make a call.
Run(t) ==
    \/ Acquire(t)
    \/ GetLookup(t) \/ GetCountEviction(t) \/ GetCountMiss(t) \/ GetCountHit(t)
    \/ SetInsert(t) \/ SetEvict(t) \/ SetCountEviction(t)
    \/ DeleteEntry(t)
    \/ ClearEntries(t) \/ ClearCounters(t)
    \/ ReadStats(t)
    \/ CleanupScan(t) \/ CleanupDelete(t)

\* The calls of SpecLive: those made on one key, and the set of a second key;
\* a thread makes MaxCount of them.
LiveCalls == {c \in Calls : c.key \in {"k1", None} \/ c.op = "set"}

LiveInvoke(t, c) ==
    /\ thread[t].calls < MaxCount
    /\ Invoke(t, c)

NextLive ==
    \/ \E t \in Threads, c \in LiveCalls : LiveInvoke(t, c)
    \/ \E t \in Threads : Run(t)
    \/ ConcTick

SpecLive == InitConc /\ [][NextLive]_vars /\ \A t \in Threads : WF_vars(Run(t))

\* ------------------------------ the pool called by two threads, SpecShare
\* Thread t1 makes the pool-wide calls: get_stats, and cleanup_all, the function
\* cleanup_expired_async hands to the executor. Thread t2 calls the accessors
\* and clear_all. A call of an LRUCache method runs from its `with self.lock`
\* to its return as one step, taken when no thread holds that cache's lock;
\* cleanup_expired takes the lock in one step and sweeps in the next. Each
\* attribute get_stats reads for its overall section is a step of its own.
\* All calls are made at one reading of the clock.
CategoryOrder == <<"search_cache", "embedding_cache", "vector_cache", "integrated_cache">>

\* The key cleanup_all reports a cache under.
ShortName ==
    [search_cache |-> "search", embedding_cache |-> "embedding",
     vector_cache |-> "vector", integrated_cache |-> "integrated"]

\* The totals of the overall section, in the order get_stats computes them.
OverallOrder == <<"total_cached_items", "total_hits", "total_misses", "total_evictions">>

\* The attribute of the cache self that a total sums.
Summed(self, total) ==
    CASE total = "total_cached_items" -> Len(self.cache)
      [] total = "total_hits" -> self.hits
      [] total = "total_misses" -> self.misses
      [] total = "total_evictions" -> self.evictions

\* A variant of lock_of: the four caches share one lock.
lock_of_shared(category) == "search_cache"

\* The lock a cache's methods take: each LRUCache creates its own.
lock_of(category) == category

\* The get accessor of a category, called for the key this specification uses.
get_accessor(self, category, t) ==
    CASE category = "search_cache" -> get_search_result(self, "q1", PyNone, 20, t)
      [] category = "embedding_cache" -> get_embedding(self, "t1", t)
      [] category = "vector_cache" -> get_vector_result(self, "q1", 10, t)
      [] category = "integrated_cache" -> get_integrated_result(self, "q1", PyNone, t)

\* The set accessor of a category, called for that key.
set_accessor(self, category, ttl_seconds, t) ==
    CASE category = "search_cache" ->
            set_search_result(self, "q1", PyNone, 20, "r1", ttl_seconds, t)
      [] category = "embedding_cache" -> set_embedding(self, "t1", "v1", ttl_seconds, t)
      [] category = "vector_cache" -> set_vector_result(self, "q1", 10, "v1", ttl_seconds, t)
      [] category = "integrated_cache" ->
            set_integrated_result(self, "q1", PyNone, "v1", ttl_seconds, t)

ShareTTLs == {PyNone, PyInt(-1)}

InitShare ==
    /\ service = CacheService
    /\ callers = NoCallers
    /\ now = 0
    /\ call = NoPoolCall /\ sets = None
    /\ NoLRU /\ NoKey /\ NoConc /\ NoGlobal

\* The cache thread t1 holds the lock of, or None.
Sweeping ==
    IF callers.op = "cleanup_all" /\ callers.step % 2 = 1
    THEN CategoryOrder[(callers.step + 1) \div 2] ELSE None

StatsInvoke ==
    /\ callers.op = "none" /\ callers.calls.t1 < MaxCalls
    /\ callers' = [callers EXCEPT !.op = "get_stats", !.step = 0, !.returned = "none",
                                  !.calls.t1 = @ + 1]
    /\ call' = NoPoolCall
    /\ UNCHANGED <<service, now, sets, lruVars, keyVars, concVars, globalVars>>

\* "<category>": self.<category>.get_stats()
StatsCategory ==
    /\ callers.op = "get_stats" /\ callers.step \in 0..3
    /\ LET category == CategoryOrder[callers.step + 1] IN
       /\ with_lock(callers.lock[lock_of(category)])
       /\ call' = [call EXCEPT !.stats[category] = LRUCache_get_stats(service[category])]
    /\ callers' = [callers EXCEPT !.step = @ + 1]
    /\ UNCHANGED <<service, now, sets, lruVars, keyVars, concVars, globalVars>>

\* One term of one total of "overall": len(self.<category>.cache),
\* self.<category>.hits, .misses or .evictions, read without the lock.
StatsOverall ==
    /\ callers.op = "get_stats" /\ callers.step \in 4..19
    /\ LET total == OverallOrder[((callers.step - 4) \div 4) + 1]
           category == CategoryOrder[((callers.step - 4) % 4) + 1]
       IN call' = [call EXCEPT !.stats.overall[total] = @ + Summed(service[category], total)]
    /\ callers' = [callers EXCEPT !.step = @ + 1]
    /\ UNCHANGED <<service, now, sets, lruVars, keyVars, concVars, globalVars>>

StatsReturn ==
    /\ callers.op = "get_stats" /\ callers.step = 20
    /\ callers' = [callers EXCEPT !.op = "none", !.step = 0, !.returned = "get_stats"]
    /\ UNCHANGED <<service, now, call, sets, lruVars, keyVars, concVars, globalVars>>

CleanupInvoke ==
    /\ callers.op = "none" /\ callers.calls.t1 < MaxCalls
    /\ callers' = [callers EXCEPT !.op = "cleanup_all", !.step = 0, !.returned = "none",
                                  !.calls.t1 = @ + 1]
    /\ call' = NoPoolCall
    /\ UNCHANGED <<service, now, sets, lruVars, keyVars, concVars, globalVars>>

\* self.<category>.cleanup_expired(): with self.lock
CleanupAcquire ==
    /\ callers.op = "cleanup_all" /\ callers.step \in {0, 2, 4, 6}
    /\ LET category == CategoryOrder[(callers.step \div 2) + 1] IN
       /\ with_lock(callers.lock[lock_of(category)])
       /\ callers' = [callers EXCEPT !.lock[lock_of(category)] = "t1", !.step = @ + 1]
    /\ UNCHANGED <<service, now, call, sets, lruVars, keyVars, concVars, globalVars>>

\* self.<category>.cleanup_expired(): the body, and the release of the lock
CleanupSweep ==
    /\ Sweeping # None
    /\ LET r == LRUCache_cleanup_expired(service[Sweeping], now) IN
       /\ service' = [service EXCEPT ![Sweeping] = r.self]
       /\ call' = [call EXCEPT !.removed[ShortName[Sweeping]] = r.ret]
    /\ callers' = [callers EXCEPT !.lock[lock_of(Sweeping)] = None, !.step = @ + 1]
    /\ UNCHANGED <<now, sets, lruVars, keyVars, concVars, globalVars>>

CleanupReturn ==
    /\ callers.op = "cleanup_all" /\ callers.step = 8
    /\ callers' = [callers EXCEPT !.op = "none", !.step = 0, !.returned = "cleanup_all"]
    /\ UNCHANGED <<service, now, call, sets, lruVars, keyVars, concVars, globalVars>>

ShareGet(category) ==
    /\ callers.clearing = 0 /\ callers.calls.t2 < MaxCalls
    /\ with_lock(callers.lock[lock_of(category)])
    /\ LET r == get_accessor(service, category, now) IN
       /\ PoolWithinCount(r.self)
       /\ service' = r.self
    /\ callers' = [callers EXCEPT !.calls.t2 = @ + 1,
                                  !.accessed = category, !.during = Sweeping]
    /\ UNCHANGED <<now, call, sets, lruVars, keyVars, concVars, globalVars>>

ShareSet(category, ttl_seconds) ==
    /\ callers.clearing = 0 /\ callers.calls.t2 < MaxCalls
    /\ with_lock(callers.lock[lock_of(category)])
    /\ LET r == set_accessor(service, category, ttl_seconds, now) IN
       /\ PoolWithinCount(r.self)
       /\ service' = r.self
    /\ callers' = [callers EXCEPT !.calls.t2 = @ + 1,
                                  !.accessed = category, !.during = Sweeping]
    /\ UNCHANGED <<now, call, sets, lruVars, keyVars, concVars, globalVars>>

\* clear_all: self.<category>.clear(), one cache after the other
ShareClear ==
    /\ callers.clearing > 0 \/ callers.calls.t2 < MaxCalls
    /\ LET category == CategoryOrder[callers.clearing + 1] IN
       /\ with_lock(callers.lock[lock_of(category)])
       /\ service' = [service EXCEPT ![category] = LRUCache_clear(@)]
    /\ callers' = [callers EXCEPT !.clearing = (@ + 1) % 4,
                                  !.calls.t2 = IF callers.clearing = 0 THEN @ + 1 ELSE @,
                                  !.accessed = None, !.during = None]
    /\ UNCHANGED <<now, call, sets, lruVars, keyVars, concVars, globalVars>>

NextShare ==
    \/ StatsInvoke \/ StatsCategory \/ StatsOverall \/ StatsReturn
    \/ CleanupInvoke \/ CleanupAcquire \/ CleanupSweep \/ CleanupReturn
    \/ \E category \in Categories : ShareGet(category)
    \/ \E category \in Categories, ttl_seconds \in ShareTTLs : ShareSet(category, ttl_seconds)
    \/ ShareClear

SpecShare == InitShare /\ [][NextShare]_vars

\* ------------------------------- the module's one instance, SpecGlobal
\* Threads calling get_cache_service() statement by statement, and storing and
\* reading search results through the reference it returned to them. The
\* CacheService objects are told apart by the order they were built in: 1, 2,
\* ...; 0 stands for None. cache_service: the global _cache_service; built: the
\* objects; at: each thread's position; new: the object the thread has built
\* and not yet assigned; ref: what get_cache_service last returned to the
\* thread; calls: the calls of get_cache_service the thread has made.
InitGlobal ==
    /\ global = [cache_service |-> 0,
                 built |-> <<>>,
                 at |-> [t \in Threads |-> "idle"],
                 new |-> [t \in Threads |-> 0],
                 ref |-> [t \in Threads |-> 0],
                 calls |-> [t \in Threads |-> 0]]
    /\ now = 0
    /\ NoLRU /\ NoKey /\ NoPool /\ NoConc /\ NoShare

GlobalResults == {"r1", "r2"}

GlobalInvoke(t) ==
    /\ global.at[t] = "idle" /\ global.calls[t] < MaxCalls
    /\ global' = [global EXCEPT !.at[t] = "test", !.calls[t] = @ + 1]
    /\ UNCHANGED <<now, lruVars, keyVars, poolVars, concVars, shareVars>>

\* if _cache_service is None:
GlobalTest(t) ==
    /\ global.at[t] = "test"
    /\ global' = [global EXCEPT !.at[t] = IF global.cache_service = 0 THEN "build"
                                          ELSE "return"]
    /\ UNCHANGED <<now, lruVars, keyVars, poolVars, concVars, shareVars>>

\* CacheService()
GlobalBuild(t) ==
    /\ global.at[t] = "build"
    /\ global' = [global EXCEPT !.built = Append(@, CacheService),
                                !.new[t] = Len(global.built) + 1,
                                !.at[t] = "assign"]
    /\ UNCHANGED <<now, lruVars, keyVars, poolVars, concVars, shareVars>>

\* _cache_service = ...
GlobalAssign(t) ==
    /\ global.at[t] = "assign"
    /\ global' = [global EXCEPT !.cache_service = global.new[t],
                                !.new[t] = 0,
                                !.at[t] = "return"]
    /\ UNCHANGED <<now, lruVars, keyVars, poolVars, concVars, shareVars>>

\* return _cache_service
GlobalReturn(t) ==
    /\ global.at[t] = "return"
    /\ global' = [global EXCEPT !.ref[t] = global.cache_service, !.at[t] = "idle"]
    /\ UNCHANGED <<now, lruVars, keyVars, poolVars, concVars, shareVars>>

\* set_search_result called on the object the thread was given
GlobalSet(t, result) ==
    /\ global.at[t] = "idle" /\ global.ref[t] # 0
    /\ global' = [global EXCEPT !.built[global.ref[t]] =
                      set_search_result(@, "q1", PyNone, 20, result, PyNone, now).self]
    /\ UNCHANGED <<now, lruVars, keyVars, poolVars, concVars, shareVars>>

\* get_search_result called on the object the thread was given
GlobalGet(t) ==
    /\ global.at[t] = "idle" /\ global.ref[t] # 0
    /\ LET r == get_search_result(global.built[global.ref[t]], "q1", PyNone, 20, now) IN
       /\ PoolWithinCount(r.self)
       /\ global' = [global EXCEPT !.built[global.ref[t]] = r.self]
    /\ UNCHANGED <<now, lruVars, keyVars, poolVars, concVars, shareVars>>

NextGlobal ==
    \E t \in Threads :
       \/ GlobalInvoke(t) \/ GlobalTest(t) \/ GlobalBuild(t) \/ GlobalAssign(t)
       \/ GlobalReturn(t)
       \/ \E result \in GlobalResults : GlobalSet(t, result)
       \/ GlobalGet(t)

SpecGlobal == InitGlobal /\ [][NextGlobal]_vars

\* ------------------------------------------------ properties of LRUCache
\* The most recently used key of a cache, None when the cache is empty.
MRU(cache) == IF Len(cache) = 0 THEN None ELSE cache[Len(cache)].key

\* C1: an LRUCache built with max_size >= 1 never holds more than max_size
\* entries once a call has returned, whatever calls were made.
C1_SizeAtMostMaxSize ==
    lru.max_size >= 1 => Len(lru.cache) <= lru.max_size

\* A set has just evicted for capacity and the cache is full.
C1_Witness ==
    /\ last.op = "set" /\ last.ret # None
    /\ Len(lru.cache) = lru.max_size /\ lru.max_size = MaxSize

\* C4: a set that evicts for capacity removes exactly the key whose most
\* recent access (a get that hit it, or a set of it) is the oldest among the
\* keys present before the call.
C4_EvictsLeastRecentlyAccessed ==
    [][(/\ lru'.evictions = lru.evictions + 1
        /\ last'.op = "set"
        /\ Set(last'.key, last'.value, last'.ttl))
          => /\ recent # <<>>
             /\ KeysOf(lru.cache) \ KeysOf(lru'.cache) = {Head(recent)}
             /\ last'.ret = Head(recent)
             /\ Head(recent) \in KeysOf(lru.cache)]_vars

\* A set has evicted a key although an older-inserted key, read by get in
\* between, is still cached.
C4_Witness ==
    /\ last.op = "set" /\ last.ret # None /\ lru.hits > 0
    /\ Len(lru.cache) = 2
    /\ lru.cache[1].entry.timestamp < lru.cache[2].entry.timestamp

\* C5: a get(k) that directly follows set(k, v, ttl), issued while the age of
\* the entry is at most ttl, returns v, adds one to hits, leaves misses and
\* evictions as they were and leaves k the most recently used key.
C5_GetAfterSetHits ==
    [][\A key \in Keys :
          (last.op = "set" /\ last.key = key /\ now - last.t <= last.ttl /\ Get(key))
          => /\ last'.ret = last.value
             /\ lru'.hits = lru.hits + 1
             /\ lru'.misses = lru.misses
             /\ lru'.evictions = lru.evictions
             /\ MRU(lru'.cache) = key]_vars

\* A get directly after a set of the same key has returned the stored value,
\* after the clock moved.
C5_Witness ==
    /\ last.op = "get" /\ last.after = "set" /\ last.ret = "v1"
    /\ lru.hits = 1 /\ now = 1
    /\ Lookup(lru.cache, last.key).timestamp = 0

\* C6: a get(k) on an entry whose ttl has elapsed returns None, removes that
\* entry and no other (get_stats then reports a size smaller by one), adds one
\* to evictions and to misses and leaves hits as it was.
C6_GetExpiredRemoves ==
    [][\A key \in Keys :
          (/\ Contains(lru.cache, key)
           /\ is_expired(Lookup(lru.cache, key), now)
           /\ Get(key))
          => /\ last'.ret = None
             /\ ~Contains(lru'.cache, key)
             /\ lru'.cache = SelectSeq(lru.cache, LAMBDA e : e.key # key)
             /\ Len(lru'.cache) = Len(lru.cache) - 1
             /\ LRUCache_get_stats(lru').size = LRUCache_get_stats(lru).size - 1
             /\ lru'.evictions = lru.evictions + 1
             /\ lru'.misses = lru.misses + 1
             /\ lru'.hits = lru.hits]_vars

\* A get has just removed an expired entry (counted as an eviction and a
\* miss) and left another entry in the cache.
C6_Witness ==
    /\ last.op = "get" /\ last.ret = None
    /\ lru.evictions = 1 /\ lru.misses = 1
    /\ Len(lru.cache) = 1 /\ ~Contains(lru.cache, last.key)

\* C7: a get(k) of a key that is not in the cache returns None and adds one
\* to misses; the entries, their order, hits and evictions stay as they were.
C7_GetAbsentOnlyCountsMiss ==
    [][\A key \in Keys :
          (~Contains(lru.cache, key) /\ Get(key))
          => /\ last'.ret = None
             /\ lru'.misses = lru.misses + 1
             /\ lru'.cache = lru.cache
             /\ lru'.hits = lru.hits
             /\ lru'.evictions = lru.evictions
             /\ lru'.max_size = lru.max_size]_vars

\* A get of an absent key has missed while the cache holds other entries.
C7_Witness ==
    /\ last.op = "get" /\ last.ret = None
    /\ lru.misses = 1 /\ lru.evictions = 0
    /\ Len(lru.cache) = 2

\* C8: clear leaves size, hits, misses and evictions 0 and max_size as it
\* was; a get of any key that was cached before the clear, and the get that
\* follows the clear, return None.
C8_ClearResetsAll ==
    [][/\ Clear => /\ Len(lru'.cache) = 0
                   /\ lru'.hits = 0 /\ lru'.misses = 0 /\ lru'.evictions = 0
                   /\ LRUCache_get_stats(lru').size = 0
                   /\ lru'.max_size = lru.max_size
                   /\ \A key \in KeysOf(lru.cache) :
                          LRUCache_get(lru', key, now').ret = None
       /\ \A key \in Keys :
              (last.op = "clear" /\ Get(key))
              => last'.ret = None /\ lru'.misses = 1 /\ lru'.hits = 0]_vars

\* A get directly after a clear has missed.
C8_Witness ==
    /\ last.op = "get" /\ last.after = "clear" /\ last.ret = None
    /\ lru.misses = 1 /\ lru.hits = 0 /\ lru.evictions = 0

\* C17: cleanup_expired removes every entry that is expired at the call and no
\* other, returns the number of entries it removed, keeps the entries that
\* stay in their previous relative order, and leaves hits and misses alone.
C17_CleanupRemovesExactlyExpired ==
    [][CleanupExpired =>
          LET expired == {i \in 1..Len(lru.cache) : is_expired(lru.cache[i].entry, now)}
              at(key) == CHOOSE i \in 1..Len(lru.cache) : lru.cache[i].key = key
          IN /\ \A i \in 1..Len(lru.cache) :
                   i \in expired <=> ~Contains(lru'.cache, lru.cache[i].key)
             /\ \A j \in 1..Len(lru'.cache) :
                   \E i \in (1..Len(lru.cache)) \ expired : lru.cache[i] = lru'.cache[j]
             /\ last'.removed = Cardinality(expired)
             /\ last'.removed = Len(lru.cache) - Len(lru'.cache)
             /\ \A i, j \in 1..Len(lru'.cache) :
                   i < j => at(lru'.cache[i].key) < at(lru'.cache[j].key)
             /\ lru'.hits = lru.hits /\ lru'.misses = lru.misses]_vars

\* cleanup_expired has just removed an entry and left another.
C17_Witness ==
    /\ last.op = "cleanup_expired" /\ last.removed >= 1
    /\ Len(lru.cache) >= 1

\* C18: delete(key) returns True and removes the entry of key and nothing
\* else when key is present, expired or not; returns False and changes nothing
\* when key is absent; either way hits and misses stay, and so do the other
\* entries and their order.
C18_DeleteRemovesOnlyItsKey ==
    [][\A key \in Keys :
          Delete(key) =>
             /\ IF Contains(lru.cache, key)
                THEN /\ last'.deleted
                     /\ ~Contains(lru'.cache, key)
                     /\ Len(lru'.cache) = Len(lru.cache) - 1
                     /\ lru'.cache = SelectSeq(lru.cache, LAMBDA e : e.key # key)
                ELSE /\ ~last'.deleted
                     /\ lru' = lru
             /\ lru'.hits = lru.hits /\ lru'.misses = lru.misses]_vars

\* delete has just returned True for an expired entry and left another entry.
C18_Witness ==
    /\ last.op = "delete" /\ last.deleted /\ last.after = "expired"
    /\ Len(lru.cache) >= 1

\* C19: one set evicts at most one entry: a new key put into a full cache
\* removes exactly one entry and adds 1 to evictions; any other set removes no
\* other entry and leaves evictions as it was. (The arguments of a set are
\* those last records for it.)
C19_SetEvictsAtMostOne ==
    [][LET key == last'.key
           value == last'.value
           ttl_seconds == last'.ttl
       IN Set(key, value, ttl_seconds) =>
             LET gone == {k \in KeysOf(lru.cache) \ {key} : ~Contains(lru'.cache, k)} IN
             IF ~Contains(lru.cache, key) /\ Len(lru.cache) >= lru.max_size
             THEN /\ Cardinality(gone) = 1
                  /\ Len(lru'.cache) = Len(lru.cache)
                  /\ lru'.evictions = lru.evictions + 1
             ELSE /\ gone = {}
                  /\ lru'.evictions = lru.evictions]_vars

\* A set of a new key has just evicted one of two entries, the first eviction
\* of the cache.
C19_Witness ==
    /\ last.op = "set" /\ last.after # "overwrite" /\ last.ret \in Keys
    /\ lru.max_size >= 2 /\ Len(lru.cache) = lru.max_size
    /\ lru.evictions = 1

\* C20: set(key, value, ttl_seconds) of a key that is present overwrites it:
\* the cache then holds one entry for key, with value, the time of the call
\* and ttl_seconds; key is the most recently used; the size is as before and
\* no other entry has gone or changed. (The arguments of a set are those
\* last records for it.)
C20_SetOverwritesPresentKey ==
    [][LET key == last'.key
           value == last'.value
           ttl_seconds == last'.ttl
       IN (Contains(lru.cache, key) /\ Set(key, value, ttl_seconds)) =>
             /\ Cardinality({i \in 1..Len(lru'.cache) : lru'.cache[i].key = key}) = 1
             /\ Lookup(lru'.cache, key)
                  = [value |-> value, timestamp |-> now, ttl_seconds |-> ttl_seconds]
             /\ MRU(lru'.cache) = key
             /\ Len(lru'.cache) = Len(lru.cache)
             /\ \A k \in KeysOf(lru.cache) \ {key} :
                   Contains(lru'.cache, k) /\ Lookup(lru'.cache, k) = Lookup(lru.cache, k)
             /\ lru'.evictions = lru.evictions]_vars

\* A set has just overwritten the older of two entries at a later time and
\* with another ttl than the entry had.
C20_Witness ==
    /\ last.op = "set" /\ last.after = "overwrite"
    /\ Len(lru.cache) = 2 /\ MRU(lru.cache) = last.key
    /\ last.t >= 1 /\ lru.cache[1].entry.timestamp < last.t
    /\ lru.cache[2].entry = [value |-> last.value, timestamp |-> last.t, ttl_seconds |-> last.ttl]

\* C25: hits, misses and evictions never decrease across a get, set, delete,
\* cleanup_expired or get_stats call; only clear lowers them, and it sets all
\* three to 0.
C25_CountersOnlyClearLowers ==
    [][/\ last'.op # "clear" =>
             /\ lru'.hits >= lru.hits
             /\ lru'.misses >= lru.misses
             /\ lru'.evictions >= lru.evictions
       /\ Clear => lru'.hits = 0 /\ lru'.misses = 0 /\ lru'.evictions = 0]_vars

\* A cleanup_expired has just removed an entry from a cache that has counted
\* a get and an eviction, and the counts are still there.
C25_Witness ==
    /\ last.op = "cleanup_expired" /\ last.removed >= 1
    /\ lru.hits + lru.misses >= 1
    /\ lru.evictions >= 1

\* C26: an entry is expired exactly when its age, now minus the time it was
\* stored, is strictly above its ttl. A get of an entry whose age is at most
\* its ttl, the instant they are equal included, hits and returns the value;
\* so does a get of an entry stored with ttl 0 at the instant it was stored. A
\* get of an entry whose age is above its ttl misses.
C26_ExpiredStrictlyAfterTTL ==
    \A i \in 1..Len(lru.cache) :
        LET key == lru.cache[i].key
            entry == lru.cache[i].entry
            age == now - entry.timestamp
            r == LRUCache_get(lru, key, now)
        IN /\ is_expired(entry, now) <=> (age > entry.ttl_seconds)
           /\ (age <= entry.ttl_seconds) =>
                 /\ r.ret = entry.value
                 /\ r.self.hits = lru.hits + 1 /\ r.self.misses = lru.misses
                 /\ Contains(r.self.cache, key)
           /\ (age > entry.ttl_seconds) =>
                 /\ r.ret = None
                 /\ r.self.hits = lru.hits /\ r.self.misses = lru.misses + 1
                 /\ ~Contains(r.self.cache, key)

\* A get has just hit an entry at the instant its age reached its ttl of 1,
\* while the cache holds an entry stored with ttl 0 at this very instant.
C26_Witness ==
    /\ last.op = "get" /\ last.ret = "v1" /\ lru.hits = 1
    /\ Len(lru.cache) = 2
    /\ lru.cache[2].key = last.key
    /\ lru.cache[2].entry.ttl_seconds = 1 /\ now - lru.cache[2].entry.timestamp = 1
    /\ lru.cache[1].entry.ttl_seconds = 0 /\ lru.cache[1].entry.timestamp = now

\* C27 as stated: every report of get_stats has total_requests = hits + misses
\* and size = the number of entries; hit_rate_percent is 0 when total_requests
\* is 0 and otherwise is 100 * hits / (hits + misses) itself.
\* (hit_rate_percent is held in hundredths of a percent.)
C27_HitRateExact ==
    last.op = "get_stats" =>
        /\ last.stats.total_requests = lru.hits + lru.misses
        /\ last.stats.size = Len(lru.cache)
        /\ last.stats.total_requests = 0 => last.stats.hit_rate_percent = 0
        /\ last.stats.total_requests > 0 =>
              last.stats.hit_rate_percent * (lru.hits + lru.misses) = 10000 * lru.hits

\* C27, amended: every report of get_stats has total_requests = hits + misses
\* and size = the number of entries; hit_rate_percent is 0 when total_requests
\* is 0 and otherwise is 100 * hits / (hits + misses) rounded to two decimals
\* (at most half a hundredth away from it); it is always between 0 and 100.
C27_HitRateRounded ==
    last.op = "get_stats" =>
        LET total == lru.hits + lru.misses
            rate == last.stats.hit_rate_percent
            off == rate * total - 10000 * lru.hits
        IN /\ last.stats.total_requests = total
           /\ last.stats.hits = lru.hits /\ last.stats.misses = lru.misses
           /\ last.stats.size = Len(lru.cache)
           /\ total = 0 => rate = 0
           /\ total > 0 => 2 * off <= total /\ 2 * off >= 0 - total
           /\ 0 <= rate /\ rate <= 10000

\* get_stats has just reported 66.67 percent for 2 hits and 1 miss, of a
\* cache that holds an entry.
C27_Witness ==
    /\ last.op = "get_stats"
    /\ lru.hits = 2 /\ lru.misses = 1
    /\ last.stats.hit_rate_percent = 6667
    /\ last.stats.size = 1 /\ Len(lru.cache) = 1

\* C28: since the last clear, evictions is the number of entries set pushed
\* out for capacity plus the number of expired entries get removed; the
\* entries cleanup_expired or delete remove are never added. Call by call:
\* clear leaves evictions at 0; a set adds the number of entries it pushed
\* out; a get adds the number of entries it removed, all of them expired; a
\* delete, cleanup_expired or get_stats adds nothing, whatever it removed.
C28_EvictionsCountSetAndGetOnly ==
    [][LET gone == KeysOf(lru.cache) \ KeysOf(lru'.cache) IN
       /\ last'.op = "clear" => lru'.evictions = 0
       /\ last'.op = "set" => lru'.evictions = lru.evictions + Cardinality(gone)
       /\ last'.op = "get" =>
             /\ lru'.evictions = lru.evictions + Cardinality(gone)
             /\ \A k \in gone : now - Lookup(lru.cache, k).timestamp
                                   > Lookup(lru.cache, k).ttl_seconds
       /\ last'.op \in {"delete", "cleanup_expired", "get_stats"} =>
             lru'.evictions = lru.evictions]_vars

\* A delete has just removed an expired entry from a cache whose set had
\* pushed an entry out before; evictions is still 1.
C28_Witness ==
    /\ last.op = "delete" /\ last.deleted /\ last.after = "expired"
    /\ lru.evictions = 1 /\ lru.hits = 0 /\ lru.misses = 0

\* C29: expiry is lazy and capacity does not look at it. An expired entry no
\* get or sweep has met is among the entries get_stats counts as size, and it
\* fills the cache like any other: a set of a new key into a full cache pushes
\* out the least recently used entry, expired or not, and keeps every other
\* entry, expired or not. (The arguments of a set are those last records.)
C29_CapacityIgnoresExpiry ==
    [][LET key == last'.key
           value == last'.value
           ttl_seconds == last'.ttl
       IN (/\ last'.op = "set"
           /\ Len(lru.cache) = lru.max_size
           /\ ~Contains(lru.cache, key)
           /\ Set(key, value, ttl_seconds))
          => /\ LRUCache_get_stats(lru).size = lru.max_size
             /\ ~Contains(lru'.cache, lru.cache[1].key)
             /\ \A i \in 2..Len(lru.cache) :
                   /\ Contains(lru'.cache, lru.cache[i].key)
                   /\ Lookup(lru'.cache, lru.cache[i].key) = lru.cache[i].entry
             /\ lru'.evictions = lru.evictions + 1
             /\ LRUCache_get_stats(lru').size = lru.max_size]_vars

\* A set has just pushed out an entry that was not expired, and an expired
\* entry is still in the cache and in the size get_stats would report.
C29_Witness ==
    /\ last.op = "set" /\ last.after = "live" /\ last.ret \in Keys
    /\ Len(lru.cache) = 2
    /\ is_expired(lru.cache[1].entry, now)
    /\ LRUCache_get_stats(lru).size = 2

\* C30: a get returns None if and only if that get was counted as a miss; a
\* get that adds to hits returns something other than None, whatever value
\* was stored, None among them.
C30_NoneOnlyOnMiss ==
    [][(last'.op = "get" /\ Get(last'.key)) =>
          /\ (last'.ret = None) <=> (lru'.misses = lru.misses + 1)
          /\ (lru'.hits = lru.hits + 1) => (last'.ret # None)]_vars

\* ------------------------------------------------- properties of SpecConc
Quiescent == \A t \in Threads : thread[t].pc = "idle"

\* C2: while threads call get, set and the other methods of one LRUCache
\* concurrently, no get_stats a thread makes returns a size above max_size,
\* and once every call has returned, hits + misses is the number of get calls
\* made (as long as no clear has reset the counters).
C2_NoOversizeNoLostCount ==
    /\ \A t \in Threads : thread[t].ret.stats.size <= shared.max_size
    /\ (Quiescent /\ serial.clears = 0) => shared.hits + shared.misses = serial.gets

\* Both threads have made their calls, one of them invoked while the other
\* held the lock; two of the calls were gets, and a set evicted.
C2_Witness ==
    /\ Quiescent /\ serial.overlap /\ serial.clears = 0
    /\ \A t \in Threads : thread[t].calls = MaxCalls
    /\ serial.gets = 2 /\ shared.hits + shared.misses = 2
    /\ shared.evictions >= 1 /\ Len(shared.cache) = shared.max_size

\* C3: the calls on one LRUCache are linearizable. Each call takes effect as
\* one step at the moment it takes the lock, between its invocation and its
\* return: it returns what the serial execution of the calls in that order
\* returns, and whenever no call is in its body the store and the counters
\* are those of the serial execution.
C3_Linearizable ==
    /\ \A t \in Threads : thread[t].pc = "idle" => thread[t].ret = thread[t].lin
    /\ (\A t \in Threads : thread[t].pc \in {"idle", "invoked"}) => shared = serial.cache

\* A get that waited for the lock has returned the value a set of the other
\* thread stored, and the other thread's get_stats has returned.
C3_Witness ==
    /\ Quiescent /\ serial.overlap
    /\ \E t, u \in Threads :
          /\ thread[t].ret.value = "v1"
          /\ thread[u].ret.stats.total_requests = 1
          /\ thread[u].ret.stats.size = 1
    /\ shared = serial.cache /\ shared.hits = 1

C9_ScenarioEvictsFirst ==
    [][\A query \in Queries, filters \in Filters, limit \in Limits :
          (/\ Len(sets.log) = service.search_cache.max_size + 1
           /\ \A i, j \in 1..Len(sets.log) :
                 i # j => sets.log[i].query # sets.log[j].query
           /\ \A i \in 1..Len(sets.log) : now - sets.log[i].t <= sets.log[i].ttl
           /\ GetSearchResult(query, filters, limit))
          => /\ query = sets.log[1].query => call'.ret = None
             /\ \A i \in 2..Len(sets.log) :
                   query = sets.log[i].query => call'.ret = sets.log[i].result]_vars

\* Three sets for three distinct queries have been followed by a get of the
\* first query, which found it evicted.
C9_Witness ==
    /\ call.op = "get_search_result" /\ call.ret = None
    /\ Len(sets.log) = 3 /\ sets.read
    /\ call.query = sets.log[1].query
    /\ \A i \in 1..3 : now - sets.log[i].t <= sets.log[i].ttl
    /\ service.search_cache.evictions = 1 /\ service.search_cache.misses = 1
    /\ KeysOf(service.search_cache.cache)
         = {generate_cache_key("search", search_params(sets.log[i].query, PyNone, 20)) :
              i \in 2..3}

\* C12: no state holds an LRUCache with max_size <= 0 or an entry with a
\* negative TTL: a construction that would give one is rejected.
C12_NoInvalidState ==
    \A c \in Categories :
       /\ service[c].max_size >= 1
       /\ \A i \in 1..Len(service[c].cache) : service[c].cache[i].entry.ttl_seconds >= 0

RECURSIVE Unserializable(_)
\* v cannot be written as JSON: it holds an object json has no encoding for,
\* or a dict key that is not a string.
Unserializable(v) ==
    CASE v.type = "object" -> TRUE
      [] v.type = "dict" ->
            \E i \in 1..Len(v.items) :
               v.items[i].key \in NonStrKeys \/ Unserializable(v.items[i].value)
      [] v.type = "list" -> \E i \in 1..Len(v.items) : Unserializable(v.items[i])
      [] OTHER -> FALSE

\* C11: a get_search_result or set_search_result called with filters that
\* cannot be written as JSON raises to its caller and leaves every cache as
\* it was: it counts no miss, reads no entry and stores none.
C11_UnserializableRaises ==
    [][\A query \in ParamQueries, filters \in ParamFilters, limit \in Limits :
          (/\ Unserializable(filters)
           /\ \/ GetSearchResult(query, filters, limit)
              \/ \E result \in Results, ttl_seconds \in TTLOverrides :
                    SetSearchResult(query, filters, limit, result, ttl_seconds))
          => call'.raised /\ service' = service]_vars

\* C13: each set_<category> stores the TTL the caller supplied, for every
\* integer ttl_seconds >= 0, and the category's default (300 / 3600 / 600 /
\* 300) only when no ttl_seconds was given.
C13_SuppliedTTLStored ==
    [][LET asked(ttl_seconds, category) ==
              IF ttl_seconds = PyNone THEN default_ttl[category] ELSE ttl_seconds.n
           supplied(ttl_seconds) == ttl_seconds = PyNone \/ ttl_seconds.n >= 0
           stored(cache) == cache.cache[Len(cache.cache)].entry.ttl_seconds
       IN /\ \A ttl_seconds \in AccessTTLs :
               (/\ supplied(ttl_seconds)
                /\ \E query \in AccessQueries, filters \in AccessFilters, limit \in Limits,
                      result \in AccessResults :
                      SetSearchResult(query, filters, limit, result, ttl_seconds))
               => stored(service'.search_cache) = asked(ttl_seconds, "search")
          /\ \A ttl_seconds \in OtherTTLs :
               /\ (/\ supplied(ttl_seconds)
                   /\ \E text \in Texts, embedding \in Embeddings :
                         SetEmbedding(text, embedding, ttl_seconds))
                  => stored(service'.embedding_cache) = asked(ttl_seconds, "embedding")
               /\ (/\ supplied(ttl_seconds)
                   /\ \E query \in VectorQueries, limit \in VectorLimits,
                         result \in VectorResults :
                         SetVectorResult(query, limit, result, ttl_seconds))
                  => stored(service'.vector_cache) = asked(ttl_seconds, "vector")
               /\ (/\ supplied(ttl_seconds)
                   /\ \E query \in IntegratedQueries, context \in Contexts,
                         result \in IntegratedResults :
                         SetIntegratedResult(query, context, result, ttl_seconds))
                  => stored(service'.integrated_cache) = asked(ttl_seconds, "integrated")]_vars

\* C14: in every report CacheService.get_stats returns, other threads calling
\* get, set and clear meanwhile or not, each overall total is the sum of the
\* per-category values of that same report.
C14_TotalsAreCategorySums ==
    callers.returned = "get_stats" =>
       LET report == call.stats
           Sum(field) ==
              report.search_cache[field] + report.embedding_cache[field]
              + report.vector_cache[field] + report.integrated_cache[field]
       IN /\ report.overall.total_cached_items = Sum("size")
          /\ report.overall.total_hits = Sum("hits")
          /\ report.overall.total_misses = Sum("misses")
          /\ report.overall.total_evictions = Sum("evictions")

\* C15: while cleanup_expired sweeps one category, holding that cache's lock,
\* the lock a get or set on any other category waits for is free: the sweep
\* does not block it.
C15_SweepBlocksNoOtherCategory ==
    \A category \in Categories :
       (Sweeping # None /\ category # Sweeping)
       => with_lock(callers.lock[lock_of(category)])

\* An accessor call on one category has returned while thread t1 was sweeping
\* another and still is.
C15_Witness ==
    /\ Sweeping # None
    /\ callers.accessed \in Categories \ {Sweeping}
    /\ callers.during = Sweeping

\* C16: cleanup_expired_async called when no category holds an expired entry
\* returns 0 for each category and leaves the report of get_stats as it was.
C16_CleanupWithoutExpiredIsNoOp ==
    [][(/\ CleanupExpiredAsync
        /\ \A c \in Categories : \A i \in 1..Len(service[c].cache) :
              ~is_expired(service[c].cache[i].entry, now))
       => /\ call'.removed = [search |-> 0, embedding |-> 0, vector |-> 0, integrated |-> 0]
          /\ get_stats(service') = get_stats(service)]_vars

\* cleanup_expired_async has just returned 0 for each category from a pool
\* that holds entries in two categories at least.
C16_Witness ==
    /\ call.op = "cleanup_expired_async"
    /\ call.removed = [search |-> 0, embedding |-> 0, vector |-> 0, integrated |-> 0]
    /\ Cardinality({c \in Categories : Len(service[c].cache) > 0}) >= 2

\* C21: an argument left out and its explicit empty value address the same
\* entry. From every state, what set_search_result stores with filters None
\* or {} (not expired at once), get_search_result then returns for filters
\* None and for filters {}, same query and limit; likewise context None and []
\* for the integrated accessors.
C21_DefaultsAddressSameEntry ==
    /\ \A query \in AccessQueries, given \in AccessFilters, limit \in Limits,
          result \in AccessResults, ttl_seconds \in AccessTTLs :
          LET stored == set_search_result(service, query, given, limit, result,
                                          ttl_seconds, now).self
          IN ttl_or_default(ttl_seconds, "search") >= 0
             => \A filters \in AccessFilters :
                   get_search_result(stored, query, filters, limit, now).ret = result
    /\ \A query \in IntegratedQueries, given \in Contexts,
          result \in IntegratedResults, ttl_seconds \in OtherTTLs :
          LET stored == set_integrated_result(service, query, given, result,
                                              ttl_seconds, now).self
          IN ttl_or_default(ttl_seconds, "integrated") >= 0
             => \A context \in Contexts :
                   get_integrated_result(stored, query, context, now).ret = result

\* set_integrated_result has just returned, and both the search entry and
\* the integrated entry are returned for the omitted and for the empty
\* argument: each was stored with one of the two and is read with the other.
C21_Witness ==
    /\ call.op = "set_integrated_result"
    /\ \A filters \in AccessFilters :
          get_search_result(service, "q1", filters, 20, now).ret = "r1"
    /\ \A context \in Contexts :
          get_integrated_result(service, "q1", context, now).ret = "v1"

\* C22: the pool is built once. All the references get_cache_service has
\* returned, first calls made by several threads at once included, are to one
\* CacheService, so what was stored through one of them is read through the
\* others.
C22_OneInstance ==
    \A t, u \in Threads :
       (global.ref[t] # 0 /\ global.ref[u] # 0) =>
          /\ global.ref[t] = global.ref[u]
          /\ get_search_result(global.built[global.ref[t]], "q1", PyNone, 20, now).ret
               = get_search_result(global.built[global.ref[u]], "q1", PyNone, 20, now).ret

InitKey ==
    /\ kd_operation \in Operations
    /\ kd_params \in ParamBags
    /\ kd_key = None
    /\ now = 0
    /\ NoLRU /\ NoPool /\ NoConc /\ NoShare /\ NoGlobal

GenerateCacheKey ==
    /\ kd_key' = generate_cache_key(kd_operation, kd_params)
    /\ UNCHANGED <<kd_operation, kd_params, now, lruVars, poolVars, concVars, shareVars, globalVars>>

NextKey == GenerateCacheKey

SpecKey == InitKey /\ [][NextKey]_vars

\* C10: the key _generate_cache_key returns is the key it returns for every
\* bag that holds the same pairs inserted in another order, at any nesting
\* level; a second call with the same input returns the same key, and no call
\* changes the caches.
C10_KeyOrderIndependent ==
    [][GenerateCacheKey
       => /\ \A bag \in AllOrders(kd_params) :
                 generate_cache_key(kd_operation, bag) = kd_key'
          /\ (kd_key # None => kd_key' = kd_key)
          /\ service' = service]_vars

\* A key has been derived from a bag whose nested filters were inserted in
\* another order than the sorted one.
C10_Witness ==
    /\ kd_key # None
    /\ kd_operation = "search"
    /\ \E i \in 1..Len(kd_params.items) :
          /\ kd_params.items[i].key = "filters"
          /\ kd_params.items[i].value.items # sort_keys(kd_params.items[i].value.items)
    /\ kd_params.items # sort_keys(kd_params.items)

====
